---- MODULE Spec2Model ----
(***************************************************************************)
(* A model of the RVO form filler (connect_and_fill.py) and of the native  *)
(* messaging host (python_fallback/eloket_form_filler.py).                 *)
(*                                                                         *)
(* The browser is the environment: every WebDriver command of the script   *)
(* is one atomic step, and the page's own lookups (BRP, address) write the *)
(* dependent fields between any two of them.                               *)
(***************************************************************************)
EXTENDS Integers, Sequences, FiniteSets, TLC

VARIABLES
    args_page,      \* --page: 1, 2, or 0 when the flag is absent
    json,           \* the payload file given: which sections it holds
    dom,            \* text field -> its current value (a sequence of characters)
    radio,          \* radio group -> the value of the selected option (<<>>: none)
    pc,             \* position of the script
    sub,            \* position inside the helper the script is in
    idx,            \* index of the personal_keys loop
    polls,          \* polls made by the WebDriverWait in progress
    waitOutcome,    \* dependent field -> none | Observed | TimedOut
    sawNonEmpty,    \* dependent field -> some poll of its wait read a non-empty value
    exc,            \* the exception in flight or caught ("" : none) and where it rose
    out,            \* what the orchestrator printed at its end (success, failure)
    log,            \* the WebDriver commands issued, in order
    triggered,      \* dependent field -> its remote lookup was triggered
    remoteWrote,    \* dependent field -> a remote write landed
    lateRemote,     \* dependent field -> a remote write landed once the explicit fill had begun
    byteorder,      \* sys.byteorder of the machine the native host runs on
    stdin,          \* the bytes of the host's standard input not read yet
    stdout,         \* the bytes written to standard output
    input,          \* what the browser put on standard input (0: nothing yet)
    host,           \* position of the native host's __main__
    message,        \* the message get_message returned
    bexc,           \* the type of the exception raised in the host's try ("" : none)
    exit_status,    \* <<>> while the host runs, <<n>> once it exited with n
    driver,         \* the filler's WebDriver: none yet, session, None, closed
    stats,          \* the stats fill_form returned
    sent,           \* the messages given to send_message, in order
    received,       \* what each get_message call came back with, in order
    form,           \* the form at the URL fill_form navigates to (0: none)
    elements,       \* the elements of the page the filler's driver shows
    payload,        \* the data given to fill_form: its items, in the dict's order
    fpc,            \* position of fill_form: off, idle (between calls), loop
    fidx,           \* index of the item the loop of fill_form is at
    passes,         \* the fill_form calls that returned
    returned,       \* what each fill_form call returned, in order
    flog,           \* what each step of fill_form did, in order
    remap           \* a radio field, two values for it, and their target values

wfVars == <<args_page, json, dom, radio, pc, sub, idx, polls, waitOutcome,
            sawNonEmpty, exc, out, log, triggered, remoteWrote, lateRemote>>

hostVars == <<byteorder, stdin, stdout, input, host, message, bexc, exit_status,
              driver, stats, sent, received>>

fillVars == <<form, elements, payload, fpc, fidx, passes, returned, flog, remap>>

vars == <<wfVars, hostVars, fillVars>>

-----------------------------------------------------------------------------
(* Bounds *)

\* polls of one WebDriverWait before its timeout (10 s at the default 0.5 s in the run)
MaxPolls == 2
-----------------------------------------------------------------------------
(* Python values of the payload *)

JStr(s) == [t |-> "str", s |-> s, b |-> FALSE, n |-> 0, m |-> <<>>]
JBool(b) == [t |-> "bool", s |-> <<>>, b |-> b, n |-> 0, m |-> <<>>]
JInt(n) == [t |-> "int", s |-> <<>>, b |-> FALSE, n |-> n, m |-> <<>>]
JNull == [t |-> "null", s |-> <<>>, b |-> FALSE, n |-> 0, m |-> <<>>]

UpperAlpha == <<"A","B","C","D","E","F","G","H","I","J","K","L","M",
                "N","O","P","Q","R","S","T","U","V","W","X","Y","Z">>
LowerAlpha == <<"a","b","c","d","e","f","g","h","i","j","k","l","m",
                "n","o","p","q","r","s","t","u","v","w","x","y","z">>
DigitChars == <<"0","1","2","3","4","5","6","7","8","9">>

LowerChar(c) ==
    IF \E i \in 1..26 : UpperAlpha[i] = c
    THEN LowerAlpha[CHOOSE i \in 1..26 : UpperAlpha[i] = c]
    ELSE c

\* str.lower()
Lower(s) == [i \in 1..Len(s) |-> LowerChar(s[i])]

RECURSIVE Decimal(_)
\* str(n) of a non-negative int
Decimal(n) ==
    IF n < 10 THEN <<DigitChars[n + 1]>>
    ELSE Decimal(n \div 10) \o <<DigitChars[(n % 10) + 1]>>

\* str(value)
PyStr(v) ==
    CASE v.t = "str" -> v.s
      [] v.t = "bool" -> IF v.b THEN <<"T","r","u","e">> ELSE <<"F","a","l","s","e">>
      [] v.t = "int" -> Decimal(v.n)

\* bool(value), as `if value` and `not value` take it
Truthy(v) ==
    CASE v.t = "str" -> v.s # <<>>
      [] v.t = "bool" -> v.b
      [] v.t = "int" -> v.n # 0

\* text_ in element_text
IsSubstring(text, s) ==
    \E i \in 0..Len(s) :
        /\ i + Len(text) <= Len(s)
        /\ \A j \in 1..Len(text) : s[i + j] = text[j]

-----------------------------------------------------------------------------
(* FIELD_MAP *)

personal_keys == <<"initials", "prefix", "lastName", "gender", "phone", "mobile", "email", "iban">>

AddressKeys == {"postalCode", "houseNumber", "houseNumberSuffix", "street", "city"}

\* the entries of FIELD_MAP["page1_address"] and FIELD_MAP["page2_address"]
AddrField(page, key) ==
    IF page = "page1_address"
    THEN CASE key = "postalCode" -> "page1_address.postalCode"
           [] key = "houseNumber" -> "page1_address.houseNumber"
           [] key = "houseNumberSuffix" -> "page1_address.houseNumberSuffix"
           [] key = "street" -> "page1_address.street"
           [] key = "city" -> "page1_address.city"
    ELSE CASE key = "postalCode" -> "page2_address.postalCode"
           [] key = "houseNumber" -> "page2_address.houseNumber"
           [] key = "houseNumberSuffix" -> "page2_address.houseNumberSuffix"
           [] key = "street" -> "page2_address.street"
           [] key = "city" -> "page2_address.city"

Page1AddressFields == {AddrField("page1_address", k) : k \in AddressKeys}
Page2AddressFields == {AddrField("page2_address", k) : k \in AddressKeys}

TextFields ==
    {"bsn", "initials", "prefix", "lastName", "phone", "mobile", "email", "iban"}
        \cup Page1AddressFields \cup Page2AddressFields

RadioFields == {"gender", "correspondenceAddressSame", "address_is_correct_radio"}

\* cfg.get("field_type") == "radio"
IsRadio(key) == key \in RadioFields

\* cfg['value'].endswith('Adresafwijkend_JN')
IsAdresafwijkend(key) == key = "address_is_correct_radio"

\* the option values of each radio group of the form, the ones fill_radio_field targets
RadioOptions(key) ==
    CASE key = "gender" -> <<(<<"M">>), (<<"V">>)>>
      [] key = "correspondenceAddressSame" -> <<(<<"J">>), (<<"N">>)>>
      [] key = "address_is_correct_radio" -> <<(<<"t","r","u","e">>), (<<"f","a","l","s","e">>)>>

\* the fields the page fills by itself, and the wait that watches each
DependentFields ==
    {"lastName", AddrField("page1_address", "street"), AddrField("page2_address", "street")}

-----------------------------------------------------------------------------
(* Payloads.  A section is its plain fields and its address block; the     *)
(* block may be absent, or present and empty.                              *)

NoAddress == [present |-> FALSE, d |-> <<>>]
EmptyAddress == [present |-> TRUE, d |-> <<>>]
Address(d) == [present |-> TRUE, d |-> d]
Section(fields, address) == [fields |-> fields, address |-> address]

PayloadStreet == <<"K","a","d","e">>
PayloadCity == <<"E","d","e">>
PayloadName == <<"B","o","s">>
RemoteValue == <<"D","a","m">>
StaleValue == <<"o","l","d">>

AddrNoSuffix ==
    ("postalCode" :> JStr(<<"1","2","3","4","A","B">>)) @@ ("houseNumber" :> JStr(<<"1","0">>))
        @@ ("street" :> JStr(PayloadStreet)) @@ ("city" :> JStr(PayloadCity))
AddrEmptySuffix == AddrNoSuffix @@ ("houseNumberSuffix" :> JStr(<<>>))
AddrWithSuffix ==
    ("postalCode" :> JStr(<<"1","2","3","4","A","B">>)) @@ ("houseNumber" :> JInt(10))
        @@ ("houseNumberSuffix" :> JStr(<<"A">>))
        @@ ("street" :> JStr(PayloadStreet)) @@ ("city" :> JStr(PayloadCity))
AddrNoStreet ==
    ("postalCode" :> JStr(<<"1","2","3","4","A","B">>)) @@ ("houseNumber" :> JStr(<<"1","0">>))

Bsn == "bsn" :> JInt(123)

PersonalDetailsList == <<
    Section(<<>>, NoAddress),
    Section(Bsn @@ ("lastName" :> JStr(PayloadName)), Address(AddrNoSuffix)),
    Section(Bsn @@ ("initials" :> JStr(<<"J">>)) @@ ("prefix" :> JStr(<<"v","a","n">>))
                @@ ("lastName" :> JStr(PayloadName)) @@ ("gender" :> JStr(<<"m","a","n">>))
                @@ ("phone" :> JStr(<<"0","6">>)) @@ ("mobile" :> JStr(<<"0","6">>))
                @@ ("email" :> JStr(<<"a","@","b">>)) @@ ("iban" :> JStr(<<"N","L">>))
                @@ ("correspondenceAddressSame" :> JStr(<<"j","a">>)),
            Address(AddrWithSuffix)),
    Section(Bsn @@ ("gender" :> JStr(<<"V","r","o","u","w">>))
                @@ ("correspondenceAddressSame" :> JStr(<<"N","e","e">>)),
            Address(AddrEmptySuffix)),
    Section(Bsn @@ ("lastName" :> JStr(PayloadName))
                @@ ("correspondenceAddressSame" :> JBool(TRUE)),
            NoAddress),
    Section(Bsn @@ ("gender" :> JStr(<<"x">>)), EmptyAddress),
    Section(Bsn @@ ("lastName" :> JStr(PayloadName)), Address(AddrNoStreet)) >>

InstallationAddressList == <<
    Section(<<>>, NoAddress),
    Section("isAddressCorrect" :> JBool(TRUE), NoAddress),
    Section("isAddressCorrect" :> JBool(TRUE), Address(AddrWithSuffix)),
    Section("isAddressCorrect" :> JBool(FALSE), NoAddress),
    Section("isAddressCorrect" :> JBool(FALSE), EmptyAddress),
    Section("isAddressCorrect" :> JBool(FALSE), Address(AddrNoSuffix)),
    Section("isAddressCorrect" :> JBool(FALSE), Address(AddrWithSuffix)),
    Section("isAddressCorrect" :> JStr(<<"f","a","l","s","e">>), Address(AddrNoSuffix)) >>

\* load_json(args.json)
full_data == [personalDetails |-> PersonalDetailsList[json[1]],
              installationAddress |-> InstallationAddressList[json[2]]]

\* full_data.get("personalDetails", {}) and full_data.get("installationAddress", {})
personalDetails == full_data.personalDetails
installationAddress == full_data.installationAddress

\* key in data
Has(data, key) == key \in DOMAIN data.fields

\* the address test as `is not None`
HasAddressKey(data) == data.address.present

\* data.get("address") and data.get("address", {}), taken as a truth value
HasAddress(data) == data.address.present /\ DOMAIN data.address.d # {}

\* the suffix test without its truth test
HasSuffixKey(data) == "houseNumberSuffix" \in DOMAIN data.address.d

\* "houseNumberSuffix" in address_data and address_data["houseNumberSuffix"]
HasSuffix(data) ==
    /\ "houseNumberSuffix" \in DOMAIN data.address.d
    /\ Truthy(data.address.d["houseNumberSuffix"])

\* data.get("isAddressCorrect", False)
is_correct ==
    IF Has(installationAddress, "isAddressCorrect")
    THEN installationAddress.fields["isAddressCorrect"]
    ELSE JBool(FALSE)


-----------------------------------------------------------------------------
(* The script's positions *)

\* the fill_text_field calls of the two address sequences
AddrStep ==
    ("p1_postalCode" :> [page |-> "page1_address", key |-> "postalCode"])
    @@ ("p1_houseNumber" :> [page |-> "page1_address", key |-> "houseNumber"])
    @@ ("p1_houseNumberSuffix" :> [page |-> "page1_address", key |-> "houseNumberSuffix"])
    @@ ("p1_street" :> [page |-> "page1_address", key |-> "street"])
    @@ ("p1_city" :> [page |-> "page1_address", key |-> "city"])
    @@ ("p2_postalCode" :> [page |-> "page2_address", key |-> "postalCode"])
    @@ ("p2_houseNumber" :> [page |-> "page2_address", key |-> "houseNumber"])
    @@ ("p2_houseNumberSuffix" :> [page |-> "page2_address", key |-> "houseNumberSuffix"])
    @@ ("p2_street" :> [page |-> "page2_address", key |-> "street"])
    @@ ("p2_city" :> [page |-> "page2_address", key |-> "city"])

AddrLabels == DOMAIN AddrStep
WaitLabels == {"p1_wait_name", "p1_wait_street", "p2_wait_street"}
RadioLabels == {"p1_personal", "p1_correspondence", "p2_radio"}
Page1Labels ==
    {"p1_visible", "p1_bsn", "p1_wait_name", "p1_personal", "p1_postalCode", "p1_houseNumber",
     "p1_houseNumberSuffix", "p1_wait_street", "p1_street", "p1_city", "p1_correspondence",
     "p1_complete"}
Page2Labels ==
    {"p2_visible", "p2_radio", "p2_check", "p2_postalCode", "p2_houseNumber",
     "p2_houseNumberSuffix", "p2_wait_street", "p2_street", "p2_city", "p2_complete"}

\* the section the handler at this position was given
DataAt(l) == IF l \in Page1Labels THEN personalDetails ELSE installationAddress

\* the field the helper at this position works on
FieldAt(l) ==
    CASE l = "p1_bsn" -> "bsn"
      [] l = "p1_personal" -> personal_keys[idx]
      [] l = "p1_correspondence" -> "correspondenceAddressSame"
      [] l = "p2_radio" -> "address_is_correct_radio"
      [] l = "p1_wait_name" -> "lastName"
      [] l = "p1_wait_street" -> AddrField("page1_address", "street")
      [] l = "p2_wait_street" -> AddrField("page2_address", "street")
      [] l \in AddrLabels -> AddrField(AddrStep[l].page, AddrStep[l].key)

\* whether the subscript that yields the helper's value raises KeyError
ArgPresent(l) ==
    CASE l \in AddrLabels -> AddrStep[l].key \in DOMAIN DataAt(l).address.d
      [] l = "p2_radio" -> TRUE
      [] OTHER -> Has(DataAt(l), FieldAt(l))

\* the value handed to the helper
ArgAt(l) ==
    CASE l \in AddrLabels -> DataAt(l).address.d[AddrStep[l].key]
      [] l = "p2_radio" -> is_correct
      [] OTHER -> DataAt(l).fields[FieldAt(l)]

\* where page 1 goes once the address block is done or skipped
Page1Static ==
    IF Has(personalDetails, "correspondenceAddressSame") THEN "p1_correspondence"
    ELSE "p1_complete"

\* where page 1 goes once the personal_keys loop is over
AfterPersonal == IF HasAddress(personalDetails) THEN "p1_postalCode" ELSE Page1Static

\* the sequence with the street of page 1 filled ahead of its auto-fill wait
FollowingStreetFirst(l) ==
    CASE l = "p1_visible" -> "p1_bsn"
      [] l = "p1_bsn" -> "p1_wait_name"
      [] l = "p1_wait_name" -> "p1_personal"
      [] l = "p1_personal" -> "p1_personal"
      [] l = "p1_postalCode" -> "p1_houseNumber"
      [] l = "p1_houseNumber" ->
            IF HasSuffix(personalDetails) THEN "p1_houseNumberSuffix" ELSE "p1_street"
      [] l = "p1_houseNumberSuffix" -> "p1_street"
      [] l = "p1_wait_street" -> "p1_city"
      [] l = "p1_street" -> "p1_wait_street"
      [] l = "p1_city" -> Page1Static
      [] l = "p1_correspondence" -> "p1_complete"
      [] l = "p1_complete" -> IF args_page = 1 THEN "success" ELSE "next1"
      [] l = "next1" -> "p2_visible"
      [] l = "p2_visible" -> "p2_radio"
      [] l = "p2_radio" -> "p2_check"
      [] l = "p2_postalCode" -> "p2_houseNumber"
      [] l = "p2_houseNumber" ->
            IF HasSuffix(installationAddress) THEN "p2_houseNumberSuffix" ELSE "p2_wait_street"
      [] l = "p2_houseNumberSuffix" -> "p2_wait_street"
      [] l = "p2_wait_street" -> "p2_street"
      [] l = "p2_street" -> "p2_city"
      [] l = "p2_city" -> "p2_complete"
      [] l = "p2_complete" -> "next2"
      [] l = "next2" -> "success"

\* the statement that follows the helper call at l
Following(l) ==
    CASE l = "p1_visible" -> "p1_bsn"
      [] l = "p1_bsn" -> "p1_wait_name"
      [] l = "p1_wait_name" -> "p1_personal"
      [] l = "p1_personal" -> "p1_personal"
      [] l = "p1_postalCode" -> "p1_houseNumber"
      [] l = "p1_houseNumber" ->
            IF HasSuffix(personalDetails) THEN "p1_houseNumberSuffix" ELSE "p1_wait_street"
      [] l = "p1_houseNumberSuffix" -> "p1_wait_street"
      [] l = "p1_wait_street" -> "p1_street"
      [] l = "p1_street" -> "p1_city"
      [] l = "p1_city" -> Page1Static
      [] l = "p1_correspondence" -> "p1_complete"
      [] l = "p1_complete" -> IF args_page = 1 THEN "success" ELSE "next1"
      [] l = "next1" -> "p2_visible"
      [] l = "p2_visible" -> "p2_radio"
      [] l = "p2_radio" -> "p2_check"
      [] l = "p2_postalCode" -> "p2_houseNumber"
      [] l = "p2_houseNumber" ->
            IF HasSuffix(installationAddress) THEN "p2_houseNumberSuffix" ELSE "p2_wait_street"
      [] l = "p2_houseNumberSuffix" -> "p2_wait_street"
      [] l = "p2_wait_street" -> "p2_street"
      [] l = "p2_street" -> "p2_city"
      [] l = "p2_city" -> "p2_complete"
      [] l = "p2_complete" -> "next2"
      [] l = "next2" -> "success"

\* the first step of the helper called at l
EntrySub(l) ==
    CASE l \in AddrLabels \cup {"p1_bsn", "next1", "next2"} -> "locate"
      [] l \in {"p1_correspondence", "p2_radio"} -> "radios"
      [] l \in WaitLabels -> "poll"
      [] OTHER -> ""

Logged(op, f) == Append(log, [op |-> op, f |-> f])

Goto(l) ==
    /\ pc' = l
    /\ sub' = EntrySub(l)
    /\ idx' = IF l = "p1_personal" THEN (IF pc = "p1_personal" THEN idx + 1 ELSE 1) ELSE idx
    /\ polls' = 0

\* an exception that the helper swallows: the handler goes on
RaiseSwallowed(type) ==
    /\ exc' = [type |-> type, at |-> pc]
    /\ IF pc \in {"load", "p2_check"}
       THEN pc' = "except" /\ sub' = "" /\ UNCHANGED <<idx, polls>>
       ELSE Goto(Following(pc))

\* an exception leaves every frame up to the orchestrator's try
Raise(type) ==
    /\ exc' = [type |-> type, at |-> pc]
    /\ pc' = "except"
    /\ sub' = ""
    /\ UNCHANGED <<idx, polls>>


-----------------------------------------------------------------------------
(* fill_text_field: one wait for the element, then clear, then send_keys *)

\* the dependent field whose lookup a send_keys on f triggers
LookupOf(f) ==
    CASE f = "bsn" -> {"lastName"}
      [] f = AddrField("page1_address", "houseNumber") -> {AddrField("page1_address", "street")}
      [] f = AddrField("page2_address", "houseNumber") -> {AddrField("page2_address", "street")}
      [] OTHER -> {}

\* el.clear() left out
ClearedNot(value) == value

\* el.clear()
Cleared(value) == <<>>

\* el.send_keys(str(value)) types at the end of what the field holds
Typed(value, arg) == value \o PyStr(arg)

FillTextLocate ==
    /\ pc \in AddrLabels \cup {"p1_bsn", "p1_personal"}
    /\ sub = "locate"
    /\ IF ~ArgPresent(pc)
       THEN Raise("KeyError") /\ UNCHANGED log
       ELSE /\ log' = Logged("locate", FieldAt(pc))
            /\ \/ sub' = "clear" /\ UNCHANGED <<pc, idx, polls, exc>>
               \/ Raise("TimeoutException")
    /\ UNCHANGED <<hostVars, fillVars, args_page, json, dom, radio, waitOutcome, sawNonEmpty, out,
                   triggered, remoteWrote, lateRemote>>

FillTextClear ==
    /\ pc \in AddrLabels \cup {"p1_bsn", "p1_personal"}
    /\ sub = "clear"
    /\ dom' = [dom EXCEPT ![FieldAt(pc)] = Cleared(@)]
    /\ log' = Logged("clear", FieldAt(pc))
    /\ sub' = "send_keys"
    /\ UNCHANGED <<hostVars, fillVars, args_page, json, radio, pc, idx, polls, waitOutcome, sawNonEmpty,
                   exc, out, triggered, remoteWrote, lateRemote>>

FillTextSendKeys ==
    /\ pc \in AddrLabels \cup {"p1_bsn", "p1_personal"}
    /\ sub = "send_keys"
    /\ dom' = [dom EXCEPT ![FieldAt(pc)] = Typed(@, ArgAt(pc))]
    /\ log' = Logged("send_keys", FieldAt(pc))
    /\ triggered' = [f \in DependentFields |-> triggered[f] \/ f \in LookupOf(FieldAt(pc))]
    /\ Goto(Following(pc))
    /\ UNCHANGED <<hostVars, fillVars, args_page, json, radio, waitOutcome, sawNonEmpty, exc, out,
                   remoteWrote, lateRemote>>

-----------------------------------------------------------------------------
(* fill_radio_field *)

\* value.lower() on a value that is no str raises AttributeError
LowerRaises(cfg, value) ==
    IF IsAdresafwijkend(cfg) THEN value.t \notin {"bool", "str"} ELSE value.t # "str"

\* the remapping without the inversion of the address-correct boolean
target_value_plain(cfg, value) ==
    IF IsAdresafwijkend(cfg)
    THEN LET correct == IF value.t = "bool" THEN value.b
                        ELSE Lower(value.s) = <<"t","r","u","e">>
         IN  Lower(PyStr(JBool(correct)))
    ELSE PyStr(value)

\* the remapping with every two-way choice taken one way
target_value_one_way(cfg, value) ==
    IF IsAdresafwijkend(cfg) THEN <<"f","a","l","s","e">>
    ELSE IF Lower(value.s) \in {<<"m","a","n">>, <<"v","r","o","u","w">>} THEN <<"M">>
    ELSE IF Lower(value.s) \in {<<"j","a">>, <<"n","e","e">>} THEN <<"J">>
    ELSE PyStr(value)

target_value(cfg, value) ==
    IF IsAdresafwijkend(cfg)
    THEN LET correct == IF value.t = "bool" THEN value.b
                        ELSE Lower(value.s) = <<"t","r","u","e">>
         IN  Lower(PyStr(JBool(~correct)))
    ELSE IF Lower(value.s) \in {<<"m","a","n">>, <<"v","r","o","u","w">>}
         THEN (IF Lower(value.s) = <<"m","a","n">> THEN <<"M">> ELSE <<"V">>)
    ELSE IF Lower(value.s) \in {<<"j","a">>, <<"n","e","e">>}
         THEN (IF Lower(value.s) = <<"j","a">> THEN <<"J">> ELSE <<"N">>)
    ELSE PyStr(value)

\* the radios of the group that carry the target value
Matching(cfg, target) == {i \in DOMAIN RadioOptions(cfg) : RadioOptions(cfg)[i] = target}

\* if not el.is_selected(): click
NeedsClick(selected, target) == selected # target

RadioLocate ==
    /\ pc \in RadioLabels
    /\ sub = "radios"
    /\ IF LowerRaises(FieldAt(pc), ArgAt(pc))
       THEN Raise("AttributeError") /\ UNCHANGED log
       ELSE /\ log' = Logged("radios", FieldAt(pc))
            /\ \/ sub' = "choose" /\ UNCHANGED <<pc, idx, polls, exc>>
               \/ Raise("TimeoutException")
    /\ UNCHANGED <<hostVars, fillVars, args_page, json, dom, radio, waitOutcome, sawNonEmpty, out,
                   triggered, remoteWrote, lateRemote>>

RadioChoose ==
    /\ pc \in RadioLabels
    /\ sub = "choose"
    /\ LET cfg == FieldAt(pc)
           target == target_value(cfg, ArgAt(pc))
       IN  IF Matching(cfg, target) = {}
           THEN Raise("RuntimeError") /\ UNCHANGED <<radio, log>>
           ELSE /\ IF NeedsClick(radio[cfg], target)
                   THEN radio' = [radio EXCEPT ![cfg] = target] /\ log' = Logged("click", cfg)
                   ELSE UNCHANGED <<radio, log>>
                /\ Goto(Following(pc))
                /\ UNCHANGED exc
    /\ UNCHANGED <<hostVars, fillVars, args_page, json, dom, waitOutcome, sawNonEmpty, out,
                   triggered, remoteWrote, lateRemote>>


-----------------------------------------------------------------------------
(* The auto-fill waits:                                                    *)
(*   wait(driver, 10).until(EC.none_of(                                    *)
(*       EC.text_to_be_present_in_element_value(locator, "")))             *)

\* EC.text_to_be_present_in_element_value(locator, text_), the element found
text_to_be_present_in_element_value(f, text) == IsSubstring(text, dom[f])

\* EC.none_of(condition): a condition that raises WebDriverException (no such
\* element) counts as not met
none_of(found, met) == ~(found /\ met)

\* the text the waits look for
WaitedText == <<>>

\* what one poll of the wait on f returns, the element being found or not
PollResult(f, found) == none_of(found, text_to_be_present_in_element_value(f, WaitedText))

\* a TimeoutException of the wait that no except clause takes
AfterTimeoutFatal(l) == "except"

\* where the script goes when the wait at l raises TimeoutException: the
\* handler's except clause, then the next statement
AfterTimeout(l) == Following(l)

WaitPoll ==
    /\ pc \in WaitLabels
    /\ sub = "poll"
    /\ \E found \in BOOLEAN :
        LET f == FieldAt(pc) IN
        /\ sawNonEmpty' = [sawNonEmpty EXCEPT ![f] = @ \/ (found /\ dom[f] # <<>>)]
        /\ log' = IF polls = 0 THEN Logged("wait", f) ELSE log
        /\ IF PollResult(f, found)
           THEN /\ waitOutcome' = [waitOutcome EXCEPT ![f] = "Observed"]
                /\ Goto(Following(pc))
                /\ UNCHANGED exc
           ELSE IF polls + 1 >= MaxPolls
           THEN /\ waitOutcome' = [waitOutcome EXCEPT ![f] = "TimedOut"]
                /\ IF AfterTimeout(pc) = "except"
                   THEN Raise("TimeoutException")
                   ELSE Goto(AfterTimeout(pc)) /\ UNCHANGED exc
           ELSE /\ polls' = polls + 1
                /\ UNCHANGED <<waitOutcome, pc, sub, idx, exc>>
    /\ UNCHANGED <<hostVars, fillVars, args_page, json, dom, radio, out, triggered, remoteWrote, lateRemote>>

-----------------------------------------------------------------------------
(* The page handlers *)

\* wait(driver).until(EC.visibility_of_element_located(...)) at the head of a handler
WaitVisible ==
    /\ pc \in {"p1_visible", "p2_visible"}
    /\ log' = Logged("visible", IF pc = "p1_visible" THEN "bsn" ELSE "address_is_correct_radio")
    /\ \/ Goto(Following(pc)) /\ UNCHANGED exc
       \/ Raise("TimeoutException")
    /\ UNCHANGED <<hostVars, fillVars, args_page, json, dom, radio, waitOutcome, sawNonEmpty, out,
                   triggered, remoteWrote, lateRemote>>

\* for key in personal_keys: if key in data and key in FIELD_MAP
PersonalLoop ==
    /\ pc = "p1_personal"
    /\ sub = ""
    /\ IF idx > Len(personal_keys)
       THEN Goto(AfterPersonal)
       ELSE IF ~Has(personalDetails, personal_keys[idx])
       THEN idx' = idx + 1 /\ UNCHANGED <<pc, sub, polls>>
       ELSE /\ sub' = IF IsRadio(personal_keys[idx]) THEN "radios" ELSE "locate"
            /\ UNCHANGED <<pc, idx, polls>>
    /\ UNCHANGED <<hostVars, fillVars, args_page, json, dom, radio, waitOutcome, sawNonEmpty, exc, out, log,
                   triggered, remoteWrote, lateRemote>>

\* if not is_correct: ... if not address_data: raise ValueError
P2CheckAddress ==
    /\ pc = "p2_check"
    /\ IF Truthy(is_correct)
       THEN Goto("p2_complete") /\ UNCHANGED exc
       ELSE IF ~HasAddress(installationAddress)
       THEN Raise("ValueError")
       ELSE Goto("p2_postalCode") /\ UNCHANGED exc
    /\ UNCHANGED <<hostVars, fillVars, args_page, json, dom, radio, waitOutcome, sawNonEmpty, out, log,
                   triggered, remoteWrote, lateRemote>>

\* print("--- Page N complete. ---") and the return to the orchestrator
PageComplete ==
    /\ pc \in {"p1_complete", "p2_complete"}
    /\ log' = Logged("complete", IF pc = "p1_complete" THEN "page1" ELSE "page2")
    /\ Goto(Following(pc))
    /\ UNCHANGED <<hostVars, fillVars, args_page, json, dom, radio, waitOutcome, sawNonEmpty, exc, out,
                   triggered, remoteWrote, lateRemote>>

-----------------------------------------------------------------------------
(* The orchestrator *)

NextButton(l) == IF l = "next1" THEN "page1_next_button" ELSE "page2_next_button"

\* load_json, then the branch on args.page
LoadJson ==
    /\ pc = "load"
    /\ \/ Goto(IF args_page = 2 THEN "p2_visible" ELSE "p1_visible") /\ UNCHANGED exc
       \/ Raise("OSError")
    /\ UNCHANGED <<hostVars, fillVars, args_page, json, dom, radio, waitOutcome, sawNonEmpty, out, log,
                   triggered, remoteWrote, lateRemote>>

\* wait(driver).until(EC.element_to_be_clickable(<next button>))
NextLocate ==
    /\ pc \in {"next1", "next2"}
    /\ sub = "locate"
    /\ log' = Logged("locate", NextButton(pc))
    /\ \/ sub' = "click" /\ UNCHANGED <<pc, idx, polls, exc>>
       \/ Raise("TimeoutException")
    /\ UNCHANGED <<hostVars, fillVars, args_page, json, dom, radio, waitOutcome, sawNonEmpty, out,
                   triggered, remoteWrote, lateRemote>>

\* <next button>.click()
NextClick ==
    /\ pc \in {"next1", "next2"}
    /\ sub = "click"
    /\ log' = Logged("click", NextButton(pc))
    /\ Goto(Following(pc))
    /\ UNCHANGED <<hostVars, fillVars, args_page, json, dom, radio, waitOutcome, sawNonEmpty, exc, out,
                   triggered, remoteWrote, lateRemote>>

\* the success line that ends each branch of the try
PrintSuccess ==
    /\ pc = "success"
    /\ out' = Append(out, "success")
    /\ pc' = "end"
    /\ UNCHANGED <<hostVars, fillVars, args_page, json, dom, radio, sub, idx, polls, waitOutcome, sawNonEmpty,
                   exc, log, triggered, remoteWrote, lateRemote>>

\* except Exception as e: print(...)
Catch ==
    /\ pc = "except"
    /\ out' = Append(out, "failure")
    /\ pc' = "end"
    /\ UNCHANGED <<hostVars, fillVars, args_page, json, dom, radio, sub, idx, polls, waitOutcome, sawNonEmpty,
                   exc, log, triggered, remoteWrote, lateRemote>>

-----------------------------------------------------------------------------
(* The page's own lookups *)

Clicked(button) == \E i \in 1..Len(log) : log[i] = [op |-> "click", f |-> button]

\* the page the field is on is the one the browser shows
Displayed(f) ==
    IF f = AddrField("page2_address", "street")
    THEN args_page = 2 \/ Clicked("page1_next_button")
    ELSE args_page # 2 /\ ~Clicked("page1_next_button")

\* the script's own fill of f has begun: its clear() was issued
ExplicitFillBegun(f) == \E i \in 1..Len(log) : log[i] = [op |-> "clear", f |-> f]

\* the answer of a lookup arrives and the page writes the dependent field, any
\* number of times (the form is watched until the script ends)
RemoteFill ==
    \E f \in DependentFields :
        /\ triggered[f]
        /\ Displayed(f)
        /\ pc # "end"
        /\ dom' = [dom EXCEPT ![f] = RemoteValue]
        /\ remoteWrote' = [remoteWrote EXCEPT ![f] = TRUE]
        /\ lateRemote' = [lateRemote EXCEPT ![f] = @ \/ ExplicitFillBegun(f)]
        /\ UNCHANGED <<hostVars, fillVars, args_page, json, radio, pc, sub, idx, polls, waitOutcome,
                       sawNonEmpty, exc, out, log, triggered>>

-----------------------------------------------------------------------------

\* what the form holds when the script attaches: blank, or left from an earlier
\* session (the runs of one page; a full run starts on a blank form)
InitialForm(stale, k) ==
    /\ dom = [f \in TextFields |-> IF stale THEN StaleValue ELSE <<>>]
    /\ radio = [g \in RadioFields |-> IF k = 0 THEN <<>> ELSE RadioOptions(g)[k]]

\* the payload files the runs are given: a run of one page varies that page's
\* section, a full run varies one section beside a complete other one
Varied(page, i, j) ==
    LET plain_i == PersonalDetailsList[i] = Section(Bsn @@ ("lastName" :> JStr(PayloadName)),
                                                    Address(AddrNoSuffix))
        plain_j == InstallationAddressList[j] = Section("isAddressCorrect" :> JBool(FALSE),
                                                        Address(AddrWithSuffix))
    IN  CASE page = 1 -> plain_j
          [] page = 2 -> plain_i
          [] OTHER -> plain_i \/ plain_j

\* the native host is not part of a run of the script
HostIdle ==
    /\ byteorder = "little"
    /\ stdin = <<>>
    /\ stdout = <<>>
    /\ input = 0
    /\ host = "idle"
    /\ message = JNull
    /\ bexc = ""
    /\ exit_status = <<>>
    /\ driver = "none"
    /\ stats = [fields_populated |-> 0, errors |-> 0]
    /\ sent = <<>>
    /\ received = <<>>

\* no filler of the native host is at work
FillerIdle ==
    /\ form = 0
    /\ elements = <<>>
    /\ payload = <<>>
    /\ fpc = "off"
    /\ fidx = 0
    /\ passes = 0
    /\ returned = <<>>
    /\ flog = <<>>
    /\ remap = <<>>

Init ==
    /\ HostIdle
    /\ FillerIdle
    /\ args_page \in {0, 1, 2}
    /\ \E i \in DOMAIN PersonalDetailsList, j \in DOMAIN InstallationAddressList :
          /\ Varied(args_page, i, j)
          /\ json = <<i, j>>
    /\ \E stale \in BOOLEAN, k \in 0..2 :
          /\ args_page = 0 => ~stale /\ k = 0
          /\ InitialForm(stale, k)
    /\ pc = "load"
    /\ sub = ""
    /\ idx = 1
    /\ polls = 0
    /\ waitOutcome = [f \in DependentFields |-> "none"]
    /\ sawNonEmpty = [f \in DependentFields |-> FALSE]
    /\ exc = [type |-> "", at |-> ""]
    /\ out = <<>>
    /\ log = <<>>
    /\ triggered = [f \in DependentFields |-> FALSE]
    /\ remoteWrote = [f \in DependentFields |-> FALSE]
    /\ lateRemote = [f \in DependentFields |-> FALSE]

Next ==
    \/ LoadJson
    \/ WaitVisible
    \/ FillTextLocate
    \/ FillTextClear
    \/ FillTextSendKeys
    \/ WaitPoll
    \/ PersonalLoop
    \/ RadioLocate
    \/ RadioChoose
    \/ P2CheckAddress
    \/ PageComplete
    \/ NextLocate
    \/ NextClick
    \/ PrintSuccess
    \/ Catch
    \/ RemoteFill

Spec == Init /\ [][Next]_vars


-----------------------------------------------------------------------------
(* What the log and the payload say *)

Did(op, f) == \E i \in 1..Len(log) : log[i] = [op |-> op, f |-> f]

\* any WebDriver command on f
Interacted(f) == \E i \in 1..Len(log) : log[i].f = f

Completed(page) == Did("complete", page)

Page1Street == AddrField("page1_address", "street")
Page2Street == AddrField("page2_address", "street")

PageOf(f) == IF f = Page2Street THEN "page2" ELSE "page1"

\* the payload names a value for the dependent field f, and the handler's
\* sequence for f is the one the payload asks for
PayloadNames(f) ==
    CASE f = "lastName" -> Has(personalDetails, "lastName")
      [] f = Page1Street -> HasAddress(personalDetails)
                            /\ "street" \in DOMAIN personalDetails.address.d
      [] f = Page2Street -> ~Truthy(is_correct) /\ HasAddress(installationAddress)
                            /\ "street" \in DOMAIN installationAddress.address.d

PayloadValue(f) ==
    CASE f = "lastName" -> PyStr(personalDetails.fields["lastName"])
      [] f = Page1Street -> PyStr(personalDetails.address.d["street"])
      [] f = Page2Street -> PyStr(installationAddress.address.d["street"])

IsAddrEntry1(e) == e.f \in Page1AddressFields
Page1AddressLog == SelectSeq(log, IsAddrEntry1)

IsPrefix(s, t) == Len(s) <= Len(t) /\ \A i \in 1..Len(s) : s[i] = t[i]

Count(s, x) == Cardinality({i \in 1..Len(s) : s[i] = x})

-----------------------------------------------------------------------------
(* C1: when the remote auto-fill of a dependent field (lastName, street of *)
(* page 1, street of page 2) never occurs, the wait's timeout is not       *)
(* fatal, the handler still runs its explicit fill, and once the handler   *)
(* has completed the field holds exactly the payload's value: not empty,   *)
(* not the stale value the form held, not a remote value.                  *)
C1_FallbackFillsPayloadValue ==
    /\ exc.at \notin WaitLabels
    /\ \A f \in DependentFields :
        (/\ waitOutcome[f] = "TimedOut"
         /\ ~remoteWrote[f]
         /\ PayloadNames(f)
         /\ Completed(PageOf(f)))
        => /\ Did("clear", f) /\ Did("send_keys", f)
           /\ dom[f] = PayloadValue(f)
           /\ dom[f] \notin {<<>>, StaleValue, RemoteValue}

\* page 1 ran to its end on a form that held stale values, both waits timed
\* out with no remote write, and both dependent fields hold the payload's values
C1_Witness ==
    /\ Completed("page1")
    /\ waitOutcome["lastName"] = "TimedOut" /\ waitOutcome[Page1Street] = "TimedOut"
    /\ ~remoteWrote["lastName"] /\ ~remoteWrote[Page1Street]
    /\ dom["iban"] = StaleValue
    /\ dom["lastName"] = PayloadName /\ dom[Page1Street] = PayloadStreet

C3_NonEmptyIsObserved ==
    \A f \in DependentFields : sawNonEmpty[f] => waitOutcome[f] = "Observed"

C5_State ==
    is_correct = JBool(TRUE)
    => /\ \A f \in Page2AddressFields : ~Interacted(f) /\ dom[f] \in {<<>>, StaleValue}
       /\ waitOutcome[Page2Street] = "none" /\ ~triggered[Page2Street]
       /\ Completed("page2") => radio["address_is_correct_radio"] = <<"f","a","l","s","e">>

C5_Click ==
    (is_correct = JBool(TRUE) /\ radio'["address_is_correct_radio"] # radio["address_is_correct_radio"])
    => /\ radio'["address_is_correct_radio"] = <<"f","a","l","s","e">>
       /\ log' = Logged("click", "address_is_correct_radio")
       /\ ~Did("click", "address_is_correct_radio")

C6_Payload ==
    /\ HasAddress(personalDetails)
    /\ {"postalCode", "houseNumber", "street", "city"} \subseteq DOMAIN personalDetails.address.d
    /\ ~("houseNumberSuffix" \in DOMAIN personalDetails.address.d
            /\ personalDetails.address.d["houseNumberSuffix"] # JStr(<<>>))

FillOf(f) == <<[op |-> "locate", f |-> f], [op |-> "clear", f |-> f], [op |-> "send_keys", f |-> f]>>

C6_Sequence ==
    FillOf(AddrField("page1_address", "postalCode"))
        \o FillOf(AddrField("page1_address", "houseNumber"))
        \o <<[op |-> "wait", f |-> Page1Street]>>
        \o FillOf(Page1Street)
        \o FillOf(AddrField("page1_address", "city"))

C6_AddressSequenceWithoutSuffix ==
    C6_Payload
    => /\ IsPrefix(Page1AddressLog, C6_Sequence)
       /\ ~Interacted(AddrField("page1_address", "houseNumberSuffix"))
       /\ dom[AddrField("page1_address", "houseNumberSuffix")] \in {<<>>, StaleValue}
       /\ Did("locate", Page1Street) => waitOutcome[Page1Street] \in {"Observed", "TimedOut"}
       /\ Completed("page1")
          => /\ Page1AddressLog = C6_Sequence
             /\ dom[AddrField("page1_address", "postalCode")]
                    = PyStr(personalDetails.address.d["postalCode"])
             /\ dom[AddrField("page1_address", "houseNumber")]
                    = PyStr(personalDetails.address.d["houseNumber"])
             /\ dom[AddrField("page1_address", "city")] = PyStr(personalDetails.address.d["city"])

\* the suffix key is there and empty, the wait timed out, the page completed
C6_Witness ==
    /\ C6_Payload
    /\ "houseNumberSuffix" \in DOMAIN personalDetails.address.d
    /\ Completed("page1")
    /\ waitOutcome[Page1Street] = "TimedOut"
    /\ Page1AddressLog = C6_Sequence
    /\ dom[AddrField("page1_address", "houseNumberSuffix")] = StaleValue

(* C7: fail-fast orchestration.  An exception raised at any step aborts    *)
(* every later step: no WebDriver command follows it; after a page 1       *)
(* failure the page-1 next control is not clicked and page 2 is not run;   *)
(* after a page 2 failure the page-2 next control is not clicked.  The     *)
(* exception is caught once, reported as the run's failure, and no success *)
(* line is printed.                                                        *)
IsPage2Entry(e) ==
    e.f \in Page2AddressFields \cup {"address_is_correct_radio", "page2", "page2_next_button"}

C7_State ==
    /\ exc.at \in Page1Labels \cup {"load", "next1"}
        => ~Did("click", "page1_next_button") /\ SelectSeq(log, IsPage2Entry) = <<>>
    /\ exc.at \in Page2Labels \cup {"next2"} => ~Did("click", "page2_next_button")
    /\ exc.type # "" => /\ pc \in {"except", "end"}
                        /\ out = IF pc = "end" THEN <<"failure">> ELSE <<>>
    /\ exc.type = "" => Count(out, "failure") = 0

C7_Step ==
    exc.type # "" => /\ exc' = exc
                     /\ log' = log
                     /\ radio' = radio
                     /\ dom' # dom => \E f \in DependentFields :
                                            dom' = [dom EXCEPT ![f] = RemoteValue]

C7_FailFast == []C7_State /\ [][C7_Step]_vars

\* a full run: page 1 went through, its next control was clicked, page 2 failed,
\* and the run ended with the failure reported
C7_Witness ==
    /\ args_page = 0
    /\ Completed("page1") /\ Did("click", "page1_next_button")
    /\ exc.at \in Page2Labels
    /\ pc = "end" /\ out = <<"failure">>

-----------------------------------------------------------------------------
(* Characters, bytes and JSON text of the native messaging host.  A string *)
(* is the sequence of its code points, a byte string a sequence of 0..255. *)

\* the printable ASCII characters, from the space (32) to the tilde (126); the
\* grave accent (96) is spelled out
Ascii ==
    <<" ","!","\"","#","$","%","&","'","(",")","*","+",",","-",".","/","0","1","2","3",
    "4","5","6","7","8","9",":",";","<","=",">","?","@","A","B","C","D","E","F","G","H",
    "I","J","K","L","M","N","O","P","Q","R","S","T","U","V","W","X","Y","Z","[","\\",
    "]","^","_","backtick","a","b","c","d","e","f","g","h","i","j","k","l","m","n","o",
    "p","q","r","s","t","u","v","w","x","y","z","{","|","}","~">>

\* the code point of each character of the table
OrdTable == [c \in {Ascii[i] : i \in 1..Len(Ascii)} |->
                31 + (CHOOSE i \in 1..Len(Ascii) : Ascii[i] = c)]

\* ord(c)
Ord(c) == OrdTable[c]

\* a string literal of the source, written character by character
Str(chars) == [i \in 1..Len(chars) |-> Ord(chars[i])]

\* a dict: its items in insertion order, each <<key, value>>
JObj(items) == [t |-> "obj", s |-> <<>>, b |-> FALSE, n |-> 0, m |-> items]
\* a list: its elements
JList(elems) == [t |-> "list", s |-> <<>>, b |-> FALSE, n |-> 0, m |-> elems]

\* bool(value) of a decoded JSON value
Truth(v) ==
    CASE v.t = "null" -> FALSE
      [] v.t \in {"obj", "list"} -> v.m # <<>>
      [] OTHER -> Truthy(v)

\* dict.get(key): None when the key is absent
Get(obj, key) ==
    IF \E i \in 1..Len(obj.m) : obj.m[i][1] = key
    THEN obj.m[CHOOSE i \in 1..Len(obj.m) : obj.m[i][1] = key][2]
    ELSE JNull

\* d[key] = value
Put(items, key, value) ==
    IF \E i \in 1..Len(items) : items[i][1] = key
    THEN [i \in 1..Len(items) |-> IF items[i][1] = key THEN <<key, value>> ELSE items[i]]
    ELSE Append(items, <<key, value>>)

\* a local variable: x is computed once and body F reads it under its name
With(x, F(_)) == CHOOSE y \in {F(v) : v \in {x}} : TRUE

RECURSIVE Flatten(_)
\* ''.join(ss)
Flatten(ss) ==
    With(ss, LAMBDA v :
        IF Len(v) = 0 THEN <<>>
        ELSE IF Len(v) = 1 THEN v[1]
        ELSE Flatten(SubSeq(v, 1, Len(v) \div 2))
                \o Flatten(SubSeq(v, (Len(v) \div 2) + 1, Len(v))))

\* sep.join(parts)
Join(parts, sep) ==
    With(parts, LAMBDA p : Flatten([i \in 1..Len(p) |-> IF i = 1 THEN p[1] ELSE sep \o p[i]]))

HexDigits == Str(<<"0","1","2","3","4","5","6","7","8","9","a","b","c","d","e","f">>)

\* '\\u{0:04x}'.format(n)
Hex4(n) ==
    Str(<<"\\","u">>)
        \o <<HexDigits[((n \div 4096) % 16) + 1], HexDigits[((n \div 256) % 16) + 1],
             HexDigits[((n \div 16) % 16) + 1], HexDigits[(n % 16) + 1]>>

\* json.encoder, ensure_ascii: the escape of one character of a string
EscapeChar(c) ==
    CASE c = Ord("\"") -> Str(<<"\\","\"">>)
      [] c = Ord("\\") -> Str(<<"\\","\\">>)
      [] c = 10 -> Str(<<"\\","n">>)
      [] c = 13 -> Str(<<"\\","r">>)
      [] c = 9 -> Str(<<"\\","t">>)
      [] c = 8 -> Str(<<"\\","b">>)
      [] c = 12 -> Str(<<"\\","f">>)
      [] c < 32 \/ c > 126 -> Hex4(c)
      [] OTHER -> <<c>>

DumpsStr(s) ==
    With(s, LAMBDA t :
        Str(<<"\"">>) \o Flatten([i \in 1..Len(t) |-> EscapeChar(t[i])]) \o Str(<<"\"">>))

DumpsInt(n) == IF n < 0 THEN Str(<<"-">>) \o Str(Decimal(-n)) ELSE Str(Decimal(n))

KeySeparatorCompact == Str(<<":">>)

\* json.dumps' separators
ItemSeparator == Str(<<",", " ">>)
KeySeparator == Str(<<":", " ">>)

RECURSIVE Dumps(_)
\* json.dumps(value)
Dumps(value) ==
    With(value, LAMBDA v :
        CASE v.t = "str" -> DumpsStr(v.s)
          [] v.t = "int" -> DumpsInt(v.n)
          [] v.t = "bool" ->
                IF v.b THEN Str(<<"t","r","u","e">>) ELSE Str(<<"f","a","l","s","e">>)
          [] v.t = "null" -> Str(<<"n","u","l","l">>)
          [] v.t = "obj" ->
                Str(<<"{">>)
                \o Join([i \in 1..Len(v.m) |->
                            DumpsStr(v.m[i][1]) \o KeySeparator \o Dumps(v.m[i][2])],
                        ItemSeparator)
                \o Str(<<"}">>)
          [] v.t = "list" ->
                Str(<<"[">>)
                \o Join([i \in 1..Len(v.m) |-> Dumps(v.m[i])], ItemSeparator)
                \o Str(<<"]">>))

-----------------------------------------------------------------------------
(* json.loads, on the JSON text of the model: objects, lists, strings,     *)
(* integers, true, false and null (no message of the model holds a float)  *)

Fail == [ok |-> FALSE, v |-> JNull, i |-> 0]
Ok(v, i) == [ok |-> TRUE, v |-> v, i |-> i]

Whitespace == {32, 9, 10, 13}
Digits == 48..57

\* the first position from i on that holds no whitespace
SkipWs(s, i) ==
    IF i > Len(s) THEN i
    ELSE CHOOSE j \in i..(Len(s) + 1) :
            /\ j > Len(s) \/ s[j] \notin Whitespace
            /\ \A k \in i..(j - 1) : s[k] \in Whitespace

\* s holds the literal lit at i
Holds(s, i, lit) == i + Len(lit) - 1 <= Len(s) /\ \A j \in 1..Len(lit) : s[i + j - 1] = lit[j]

IsHex(c) == c \in Digits \cup 97..102 \cup 65..70
HexVal(c) == IF c \in Digits THEN c - 48 ELSE IF c \in 97..102 THEN c - 87 ELSE c - 55

\* the character a backslash escape stands for (0: no such escape)
Unescape(c) ==
    CASE c = Ord("\"") -> Ord("\"")
      [] c = Ord("\\") -> Ord("\\")
      [] c = Ord("/") -> Ord("/")
      [] c = Ord("n") -> 10
      [] c = Ord("r") -> 13
      [] c = Ord("t") -> 9
      [] c = Ord("b") -> 8
      [] c = Ord("f") -> 12
      [] OTHER -> 0

\* the backslashes that stand in a row right before j, the string's text
\* beginning at i
BackslashRun(s, i, j) ==
    LET others == {k \in i..(j - 1) : s[k] # Ord("\\")}
        last == IF others = {} THEN i - 1 ELSE CHOOSE k \in others : \A o \in others : o <= k
    IN  j - 1 - last

\* a backslash that begins an escape
EscStart(s, i, p) == s[p] = Ord("\\") /\ BackslashRun(s, i, p) % 2 = 0

\* the string whose opening quote ends at i - 1: py_scanstring, strict
ParseString(s, i) ==
    With({j \in i..Len(s) : s[j] = Ord("\"") /\ BackslashRun(s, i, j) % 2 = 0}, LAMBDA quotes :
    IF quotes = {} THEN Fail
    ELSE With(CHOOSE j \in quotes : \A q \in quotes : j <= q, LAMBDA end :
         LET IsU(p) == EscStart(s, i, p) /\ s[p + 1] = Ord("u")
             EscChar(p) == p > i /\ EscStart(s, i, p - 1)
             InHex(p) == \E q \in (p - 5)..(p - 2) : q >= i /\ IsU(q)
             HexOk(p) == p + 5 < end /\ \A j \in 2..5 : IsHex(s[p + j])
             Unit(p) ==
                 IF IsU(p)
                 THEN <<4096 * HexVal(s[p + 2]) + 256 * HexVal(s[p + 3])
                            + 16 * HexVal(s[p + 4]) + HexVal(s[p + 5])>>
                 ELSE IF EscStart(s, i, p) THEN <<Unescape(s[p + 1])>>
                 ELSE IF EscChar(p) \/ InHex(p) THEN <<>>
                 ELSE <<s[p]>>
             Valid(p) ==
                 IF IsU(p) THEN HexOk(p)
                 ELSE IF EscStart(s, i, p) THEN Unescape(s[p + 1]) # 0
                 ELSE EscChar(p) \/ InHex(p) \/ s[p] >= 32
         IN  IF \A p \in i..(end - 1) : Valid(p)
             THEN Ok(JStr(Flatten([k \in 1..(end - i) |-> Unit(i + k - 1)])), end + 1)
             ELSE Fail))

RECURSIVE ParseDigits(_, _, _)
\* the digits from i on, n the value of those before
ParseDigits(s, i, n) ==
    With(<<i, n>>, LAMBDA a :
        IF a[1] <= Len(s) /\ s[a[1]] \in Digits
        THEN ParseDigits(s, a[1] + 1, 10 * a[2] + (s[a[1]] - 48))
        ELSE Ok(JInt(a[2]), a[1]))

\* -?(0|[1-9][0-9]*)
ParseNumber(s, i) ==
    LET neg == s[i] = Ord("-")
        j == IF neg THEN i + 1 ELSE i
    IN  With(IF j > Len(s) \/ s[j] \notin Digits THEN Fail
             ELSE IF s[j] = 48 THEN Ok(JInt(0), j + 1)
             ELSE ParseDigits(s, j, 0),
             LAMBDA r : IF r.ok /\ neg THEN Ok(JInt(-r.v.n), r.i) ELSE r)

RECURSIVE ParseValue(_, _), ParseMembers(_, _, _), ParseElements(_, _, _)

ParseValue(s, i0) ==
    With(SkipWs(s, i0), LAMBDA i :
    IF i > Len(s) THEN Fail
    ELSE IF s[i] = Ord("\"") THEN ParseString(s, i + 1)
    ELSE IF s[i] = Ord("{")
    THEN With(SkipWs(s, i + 1), LAMBDA j :
            IF j <= Len(s) /\ s[j] = Ord("}") THEN Ok(JObj(<<>>), j + 1)
            ELSE ParseMembers(s, j, <<>>))
    ELSE IF s[i] = Ord("[")
    THEN With(SkipWs(s, i + 1), LAMBDA j :
            IF j <= Len(s) /\ s[j] = Ord("]") THEN Ok(JList(<<>>), j + 1)
            ELSE ParseElements(s, j, <<>>))
    ELSE IF Holds(s, i, Str(<<"t","r","u","e">>)) THEN Ok(JBool(TRUE), i + 4)
    ELSE IF Holds(s, i, Str(<<"f","a","l","s","e">>)) THEN Ok(JBool(FALSE), i + 5)
    ELSE IF Holds(s, i, Str(<<"n","u","l","l">>)) THEN Ok(JNull, i + 4)
    ELSE IF s[i] = Ord("-") \/ s[i] \in Digits THEN ParseNumber(s, i)
    ELSE Fail)

\* the members of an object, the next key expected at i
ParseMembers(s, i, acc) ==
    With(<<i, acc>>, LAMBDA a :
    IF a[1] > Len(s) \/ s[a[1]] # Ord("\"") THEN Fail
    ELSE With(ParseString(s, a[1] + 1), LAMBDA k :
    IF ~k.ok THEN Fail
    ELSE With(SkipWs(s, k.i), LAMBDA c :
    IF c > Len(s) \/ s[c] # Ord(":") THEN Fail
    ELSE With(ParseValue(s, c + 1), LAMBDA v :
    IF ~v.ok THEN Fail
    ELSE With(SkipWs(s, v.i), LAMBDA d :
    IF d > Len(s) THEN Fail
    ELSE IF s[d] = Ord("}") THEN Ok(JObj(Put(a[2], k.v.s, v.v)), d + 1)
    ELSE IF s[d] = Ord(",") THEN ParseMembers(s, SkipWs(s, d + 1), Put(a[2], k.v.s, v.v))
    ELSE Fail)))))

\* the elements of a list, the next one expected at i
ParseElements(s, i, acc) ==
    With(<<ParseValue(s, i), acc>>, LAMBDA a :
    IF ~a[1].ok THEN Fail
    ELSE With(SkipWs(s, a[1].i), LAMBDA d :
    IF d > Len(s) THEN Fail
    ELSE IF s[d] = Ord("]") THEN Ok(JList(Append(a[2], a[1].v)), d + 1)
    ELSE IF s[d] = Ord(",") THEN ParseElements(s, d + 1, Append(a[2], a[1].v))
    ELSE Fail))

\* json.loads(text): ok is FALSE where it raises JSONDecodeError
Loads(s) ==
    With(s, LAMBDA t :
    With(ParseValue(t, 1), LAMBDA r :
        IF r.ok /\ SkipWs(t, r.i) > Len(t) THEN r ELSE Fail))

-----------------------------------------------------------------------------
(* str.encode('utf-8') and bytes.decode('utf-8') *)

Utf8Char(c) ==
    IF c < 128 THEN <<c>>
    ELSE IF c < 2048 THEN <<192 + (c \div 64), 128 + (c % 64)>>
    ELSE IF c < 65536 THEN <<224 + (c \div 4096), 128 + ((c \div 64) % 64), 128 + (c % 64)>>
    ELSE <<240 + (c \div 262144), 128 + ((c \div 4096) % 64), 128 + ((c \div 64) % 64),
           128 + (c % 64)>>

Utf8Encode(s) == With(s, LAMBDA t : Flatten([i \in 1..Len(t) |-> Utf8Char(t[i])]))

IsCont(b, i) == i <= Len(b) /\ b[i] \in 128..191

\* the bytes a character takes whose first byte is x (0: x begins none)
Width(x) ==
    IF x < 128 THEN 1
    ELSE IF x \in 194..223 THEN 2
    ELSE IF x \in 224..239 THEN 3
    ELSE IF x \in 240..244 THEN 4
    ELSE 0

\* the character whose bytes begin at i
CodePoint(b, i) ==
    CASE Width(b[i]) = 1 -> b[i]
      [] Width(b[i]) = 2 -> (b[i] - 192) * 64 + (b[i + 1] - 128)
      [] Width(b[i]) = 3 -> (b[i] - 224) * 4096 + (b[i + 1] - 128) * 64 + (b[i + 2] - 128)
      [] Width(b[i]) = 4 -> (b[i] - 240) * 262144 + (b[i + 1] - 128) * 4096
                                + (b[i + 2] - 128) * 64 + (b[i + 3] - 128)

\* the bytes from i on are one well-formed character
WellFormed(b, i) ==
    /\ Width(b[i]) > 0
    /\ \A k \in 1..(Width(b[i]) - 1) : IsCont(b, i + k)
    /\ ~IsCont(b, i + Width(b[i]))
    /\ CASE Width(b[i]) = 3 -> CodePoint(b, i) >= 2048 /\ CodePoint(b, i) \notin 55296..57343
         [] Width(b[i]) = 4 -> CodePoint(b, i) >= 65536 /\ CodePoint(b, i) <= 1114111
         [] OTHER -> TRUE

\* bytes.decode('utf-8'): ok is FALSE where decode raises UnicodeDecodeError
Utf8Decode(bytes) ==
    With(bytes, LAMBDA b :
    IF /\ ~IsCont(b, 1)
       /\ \A i \in 1..Len(b) : IsCont(b, i) \/ WellFormed(b, i)
    THEN [ok |-> TRUE,
          s |-> Flatten([i \in 1..Len(b) |-> IF IsCont(b, i) THEN <<>> ELSE <<CodePoint(b, i)>>])]
    ELSE [ok |-> FALSE, s |-> <<>>])

-----------------------------------------------------------------------------
(* The native messaging frame: struct '@I', then the payload *)

\* struct.pack('@I', n) on a little-endian host
PackLittle(n) == <<n % 256, (n \div 256) % 256, (n \div 65536) % 256, (n \div 16777216) % 256>>

Reverse(b) == [i \in 1..Len(b) |-> b[Len(b) + 1 - i]]

\* struct.pack('@I', n): native byte order
Pack(order, n) == IF order = "little" THEN PackLittle(n) ELSE Reverse(PackLittle(n))

UnpackBig(order, raw) ==
    LET b == Reverse(raw)
    IN  b[1] + 256 * b[2] + 65536 * b[3] + 16777216 * b[4]

\* struct.unpack('@I', raw)[0]
Unpack(order, raw) ==
    LET b == IF order = "little" THEN raw ELSE Reverse(raw)
    IN  b[1] + 256 * b[2] + 65536 * b[3] + 16777216 * b[4]

\* stream.read(n): the bytes read and the bytes left
Take(stream, n) == SubSeq(stream, 1, IF n < Len(stream) THEN n ELSE Len(stream))
Drop(stream, n) == SubSeq(stream, (IF n < Len(stream) THEN n ELSE Len(stream)) + 1, Len(stream))

\* the bytes send_message writes: the packed length, then the encoded content
encoded_content(message_content) == Utf8Encode(Dumps(message_content))
send_message(order, message_content) ==
    With(encoded_content(message_content), LAMBDA content : Pack(order, Len(content)) \o content)

EndOfStreamNever(raw_length) == FALSE

\* if not raw_length
EndOfStream(raw_length) == raw_length = <<>>

\* get_message on the bytes of standard input: exit (sys.exit(0)), raise (with
\* the exception's type) or ok (with the decoded message); rest is what is
\* left to read
get_message(order, stdin_buffer) ==
    With(stdin_buffer, LAMBDA stream :
    With(Take(stream, 4), LAMBDA raw_length :
    IF EndOfStream(raw_length) THEN [kind |-> "exit", type |-> "", v |-> JNull, rest |-> stream]
    ELSE IF Len(raw_length) < 4
    THEN [kind |-> "raise", type |-> "struct.error", v |-> JNull, rest |-> Drop(stream, 4)]
    ELSE With(Unpack(order, raw_length), LAMBDA message_length :
    With(Drop(Drop(stream, 4), message_length), LAMBDA rest :
    With(Utf8Decode(Take(Drop(stream, 4), message_length)), LAMBDA text :
    IF ~text.ok
    THEN [kind |-> "raise", type |-> "UnicodeDecodeError", v |-> JNull, rest |-> rest]
    ELSE With(Loads(text.s), LAMBDA parsed :
    IF ~parsed.ok
    THEN [kind |-> "raise", type |-> "JSONDecodeError", v |-> JNull, rest |-> rest]
    ELSE [kind |-> "ok", type |-> "", v |-> parsed.v, rest |-> rest]))))))

-----------------------------------------------------------------------------
(* The native messaging host: the __main__ of eloket_form_filler.py *)

\* the messages, as the extension's JSON text decodes
Url == JStr(Str(<<"h","t","t","p","s",":","/","/","e",".","n","l","/","f">>))
Data1 == JObj(<< <<Str(<<"b","s","n">>), JStr(Str(<<"1","2","3">>))>> >>)
Data2 == JObj(<< <<Str(<<"b","s","n">>), JStr(Str(<<"1","2","3">>))>>,
                 <<Str(<<"o","k">>), JBool(TRUE)>> >>)
KeyUrl == Str(<<"u","r","l">>)
KeyData == Str(<<"d","a","t","a">>)
KeyStatus == Str(<<"s","t","a","t","u","s">>)
KeyMessage == Str(<<"m","e","s","s","a","g","e">>)
KeyStats == Str(<<"s","t","a","t","s">>)

\* what standard input holds: the payload of one frame as text or as bytes,
\* how the frame is cut (whole, or short of its announced length, or no
\* length prefix at all), and what the payload is
Inputs == <<
    [class |-> "eof", cut |-> "none", text |-> <<>>, bytes |-> <<>>],
    [class |-> "short prefix", cut |-> "prefix", text |-> <<>>, bytes |-> <<>>],
    [class |-> "malformed", cut |-> "body", text |-> Str(<<"{","\"","u","r","l","\"",":"," ","\"","u","\"",","," ","\"","d","a","t","a","\"",
            ":"," ","{","\"","a","\"",":"," ","\"","b","\"","}","}">>),
     bytes |-> <<>>],
    [class |-> "malformed", cut |-> "whole", text |-> Str(<<"{">>), bytes |-> <<>>],
    [class |-> "malformed", cut |-> "whole", text |-> <<>>, bytes |-> <<>>],
    [class |-> "malformed", cut |-> "whole", text |-> Str(<<"{","\"","u","r","l","\"",":"," ","}">>), bytes |-> <<>>],
    [class |-> "malformed", cut |-> "whole", text |-> Str(<<"n","o","p","e">>), bytes |-> <<>>],
    [class |-> "malformed", cut |-> "whole",
     text |-> Str(<<"{","\"","u","r","l","\"",":"," ","\"","u","\"",","," ","\"","d","a","t","a","\"",
            ":"," ","{","\"","a","\"",":"," ","\"","b","\"","}","}"," ","x">>),
     bytes |-> <<>>],
    [class |-> "malformed", cut |-> "whole", text |-> Str(<<"{","'","u","r","l","'",":"," ","'","u","'","}">>), bytes |-> <<>>],
    [class |-> "not utf-8", cut |-> "whole", text |-> <<>>, bytes |-> <<123, 255, 125>>],
    [class |-> "no object", cut |-> "whole", text |-> Dumps(JList(<<Url>>)), bytes |-> <<>>],
    [class |-> "no object", cut |-> "whole", text |-> Dumps(Url), bytes |-> <<>>],
    [class |-> "no object", cut |-> "whole", text |-> Dumps(JInt(7)), bytes |-> <<>>],
    [class |-> "no object", cut |-> "whole", text |-> Dumps(JNull), bytes |-> <<>>],
    [class |-> "lacking", cut |-> "whole", text |-> Dumps(JObj(<<>>)), bytes |-> <<>>],
    [class |-> "lacking", cut |-> "whole", text |-> Dumps(JObj(<< <<KeyUrl, Url>> >>)), bytes |-> <<>>],
    [class |-> "lacking", cut |-> "whole", text |-> Dumps(JObj(<< <<KeyData, Data1>> >>)),
     bytes |-> <<>>],
    [class |-> "lacking", cut |-> "whole",
     text |-> Dumps(JObj(<< <<Str(<<"U","R","L">>), Url>>, <<KeyData, Data2>> >>)), bytes |-> <<>>],
    [class |-> "empty", cut |-> "whole",
     text |-> Dumps(JObj(<< <<KeyUrl, JStr(<<>>)>>, <<KeyData, Data1>> >>)), bytes |-> <<>>],
    [class |-> "empty", cut |-> "whole",
     text |-> Dumps(JObj(<< <<KeyUrl, Url>>, <<KeyData, JObj(<<>>)>> >>)), bytes |-> <<>>],
    [class |-> "empty", cut |-> "whole",
     text |-> Dumps(JObj(<< <<KeyUrl, Url>>, <<KeyData, JNull>> >>)), bytes |-> <<>>],
    [class |-> "data no object", cut |-> "whole",
     text |-> Dumps(JObj(<< <<KeyUrl, Url>>, <<KeyData, JList(<<JInt(1)>>)>> >>)), bytes |-> <<>>],
    [class |-> "data no object", cut |-> "whole",
     text |-> Dumps(JObj(<< <<KeyUrl, Url>>, <<KeyData, Url>> >>)), bytes |-> <<>>],
    [class |-> "well-formed", cut |-> "whole",
     text |-> Dumps(JObj(<< <<KeyUrl, Url>>, <<KeyData, Data1>> >>)), bytes |-> <<>>],
    [class |-> "well-formed", cut |-> "whole",
     text |-> Dumps(JObj(<< <<KeyData, Data2>>, <<KeyUrl, Url>> >>)), bytes |-> <<>>],
    [class |-> "well-formed", cut |-> "whole",
     text |-> Str(<<"{","\"","u","r","l","\"",":","\"","u","\"",",","\"","d","a","t","a","\"",":","{",
            "\"","a","\"",":","\"","b","\"","}","}">>),
     bytes |-> <<>>] >>

\* the bytes of the payload of an input
PayloadBytes(in) == IF in.bytes # <<>> THEN in.bytes ELSE Utf8Encode(in.text)

\* standard input as the browser fills it for an input
Stream(order, in) ==
    CASE in.cut = "none" -> <<>>
      [] in.cut = "prefix" -> Take(Pack(order, Len(PayloadBytes(in))), 2)
      [] in.cut = "body" ->
            Pack(order, Len(PayloadBytes(in))) \o Take(PayloadBytes(in), Len(PayloadBytes(in)) - 3)
      [] in.cut = "whole" -> Pack(order, Len(PayloadBytes(in))) \o PayloadBytes(in)

\* the except clause that takes an exception of this type: the first whose
\* class it is an instance of
HandlerOf(type) ==
    IF type = "JSONDecodeError" THEN "json.JSONDecodeError"
    ELSE IF type \in {"ValueError", "KeyError", "UnicodeDecodeError"} THEN "(ValueError, KeyError)"
    ELSE "Exception"

\* str(e)
ExcText(type) ==
    CASE type = "JSONDecodeError" -> Str(<<"E","x","p","e","c","t","i","n","g"," ","v","a","l","u","e">>)
      [] type = "UnicodeDecodeError" -> Str(<<"i","n","v","a","l","i","d"," ","s","t","a","r","t"," ","b","y","t","e">>)
      [] type = "ValueError" -> Str(<<"U","R","L"," ","a","n","d"," ","d","a","t","a"," ","a","r","e"," ","r","e","q","u",
            "i","r","e","d"," ","i","n"," ","t","h","e"," ","m","e","s","s","a","g","e",".">>)
      [] type = "struct.error" -> Str(<<"u","n","p","a","c","k"," ","r","e","q","u","i","r","e","s"," ","a"," ","b","u","f",
            "f","e","r"," ","o","f"," ","4"," ","b","y","t","e","s">>)
      [] type = "AttributeError" -> Str(<<"o","b","j","e","c","t"," ","h","a","s"," ","n","o"," ","a","t","t","r","i","b","u",
            "t","e">>)
      [] type = "Exception" -> Str(<<"W","e","b","D","r","i","v","e","r"," ","c","o","u","l","d"," ","n","o","t"," ","b",
            "e"," ","i","n","i","t","i","a","l","i","z","e","d",".">>)

\* error_msg of the except clause
error_msg(type) ==
    CASE HandlerOf(type) = "json.JSONDecodeError" ->
            Str(<<"E","r","r","o","r"," ","d","e","c","o","d","i","n","g"," ","J","S","O","N",":"," ">>) \o ExcText(type)
      [] HandlerOf(type) = "(ValueError, KeyError)" ->
            Str(<<"I","n","v","a","l","i","d"," ","m","e","s","s","a","g","e"," ","f","o","r","m","a",
            "t",":"," ">>) \o ExcText(type)
      [] HandlerOf(type) = "Exception" ->
            Str(<<"A","n"," ","u","n","e","x","p","e","c","t","e","d"," ","e","r","r","o","r"," ","o",
            "c","c","u","r","r","e","d"," ","i","n"," ","t","h","e"," ","n","a","t","i","v","e",
            " ","h","o","s","t",":"," ">>)
                \o ExcText(type)

StatusError == JStr(Str(<<"e","r","r","o","r">>))
StatusSuccess == JStr(Str(<<"s","u","c","c","e","s","s">>))

\* {'status': 'error', 'message': error_msg}
ErrorResponse(type) == JObj(<< <<KeyStatus, StatusError>>, <<KeyMessage, JStr(error_msg(type))>> >>)

\* {'status': 'success', 'stats': stats}
SuccessResponse(st) ==
    JObj(<< <<KeyStatus, StatusSuccess>>,
            <<KeyStats, JObj(<< <<Str(<<"f","i","e","l","d","s","_","p","o","p","u","l","a","t","e","d">>),
                                  JInt(st.fields_populated)>>,
                                <<Str(<<"e","r","r","o","r","s">>), JInt(st.errors)>> >>)>> >>)

RequiredMissingData(u, d) == ~Truth(d)

\* if not url or not data
RequiredMissing(u, d) == ~Truth(u) \/ ~Truth(d)

\* filler.driver after EloketFormFiller(): unset, as __init__ stands in the
\* source (it assigns wait_timeout and stats only); a session, or None when the
\* browser cannot be started, with the set-up the source leaves out
Drivers == {"unset", "session", "None"}

\* self.stats as __init__ sets it
NewStats == [fields_populated |-> 0, errors |-> 0]

\* EloketFormFiller.fill_form on a fresh filler: nav tells whether driver.get(url)
\* went through, populated which items populate_field returned True for; the
\* type of the exception it lets out ("" : none) and the stats it returns
fill_form(d, nav, populated) ==
    IF ~nav THEN [raised |-> "", stats |-> [NewStats EXCEPT !.errors = @ + 1]]
    ELSE IF d.t # "obj" THEN [raised |-> "AttributeError", stats |-> NewStats]
    ELSE [raised |-> "",
          stats |-> [fields_populated |-> NewStats.fields_populated + Cardinality(populated),
                     errors |-> NewStats.errors + (Len(d.m) - Cardinality(populated))]]

\* an exception rises inside the try of __main__
HostRaise(type) == bexc' = type /\ host' = "except"

\* message = get_message()
HostGetMessage ==
    /\ host = "get"
    /\ \E r \in {get_message(byteorder, stdin)} :
          /\ stdin' = r.rest
          /\ received' = Append(received, [kind |-> r.kind, type |-> r.type, v |-> r.v])
          /\ CASE r.kind = "exit" ->
                    host' = "exited" /\ exit_status' = <<0>> /\ UNCHANGED <<message, bexc>>
               [] r.kind = "raise" -> HostRaise(r.type) /\ UNCHANGED <<message, exit_status>>
               [] r.kind = "ok" ->
                    message' = r.v /\ host' = "validate" /\ UNCHANGED <<bexc, exit_status>>
    /\ UNCHANGED <<wfVars, fillVars, byteorder, stdout, input, driver, stats, sent>>

\* url = message.get('url'); data = message.get('data'); the check of both
HostValidate ==
    /\ host = "validate"
    /\ IF message.t # "obj" THEN HostRaise("AttributeError")
       ELSE IF RequiredMissing(Get(message, KeyUrl), Get(message, KeyData))
       THEN HostRaise("ValueError")
       ELSE host' = "init" /\ UNCHANGED bexc
    /\ UNCHANGED <<wfVars, fillVars, byteorder, stdin, stdout, input, message, exit_status, driver,
                   stats, sent, received>>

\* filler = EloketFormFiller(); if not filler.driver: raise
HostInitFiller ==
    /\ host = "init"
    /\ \E d \in Drivers :
          /\ driver' = d
          /\ CASE d = "unset" -> HostRaise("AttributeError")
               [] d = "None" -> HostRaise("Exception")
               [] d = "session" -> host' = "fill" /\ UNCHANGED bexc
    /\ UNCHANGED <<wfVars, fillVars, byteorder, stdin, stdout, input, message, exit_status, stats,
                   sent, received>>

\* stats = filler.fill_form(url, data)
HostFillForm ==
    /\ host = "fill"
    /\ LET data == Get(message, KeyData) IN
       \E nav \in BOOLEAN :
       \E populated \in SUBSET (IF nav /\ data.t = "obj" THEN 1..Len(data.m) ELSE {}) :
          LET r == fill_form(data, nav, populated) IN
          IF r.raised # "" THEN HostRaise(r.raised) /\ UNCHANGED stats
          ELSE stats' = r.stats /\ host' = "close" /\ UNCHANGED bexc
    /\ UNCHANGED <<wfVars, fillVars, byteorder, stdin, stdout, input, message, exit_status, driver,
                   sent, received>>

\* filler.close(): the class of the source defines no close, so the call
\* raises AttributeError; with the method the source leaves out it ends the
\* WebDriver session
HostClose ==
    /\ host = "close"
    /\ \/ HostRaise("AttributeError") /\ UNCHANGED driver
       \/ driver' = "closed" /\ host' = "respond" /\ UNCHANGED bexc
    /\ UNCHANGED <<wfVars, fillVars, byteorder, stdin, stdout, input, message, exit_status,
                   stats, sent, received>>

\* what a send_message call does to standard output
Write(m) ==
    /\ stdout' = stdout \o send_message(byteorder, m)
    /\ sent' = Append(sent, m)

\* send_message({'status': 'success', 'stats': stats}), the end of the try
HostRespond ==
    /\ host = "respond"
    /\ Write(SuccessResponse(stats))
    /\ host' = "exited"
    /\ exit_status' = <<0>>
    /\ UNCHANGED <<wfVars, fillVars, byteorder, stdin, input, message, bexc, driver, stats, received>>

\* the except clauses: each sends its error response
HostExcept ==
    /\ host = "except"
    /\ Write(ErrorResponse(bexc))
    /\ host' = "exited"
    /\ exit_status' = <<0>>
    /\ UNCHANGED <<wfVars, fillVars, byteorder, stdin, input, message, bexc, driver, stats, received>>

\* the script is not part of a run of the native host
WorkflowIdle ==
    /\ args_page = 0
    /\ json = <<1, 1>>
    /\ InitialForm(FALSE, 0)
    /\ pc = "end"
    /\ sub = ""
    /\ idx = 1
    /\ polls = 0
    /\ waitOutcome = [f \in DependentFields |-> "none"]
    /\ sawNonEmpty = [f \in DependentFields |-> FALSE]
    /\ exc = [type |-> "", at |-> ""]
    /\ out = <<>>
    /\ log = <<>>
    /\ triggered = [f \in DependentFields |-> FALSE]
    /\ remoteWrote = [f \in DependentFields |-> FALSE]
    /\ lateRemote = [f \in DependentFields |-> FALSE]

\* the browser starts the host with one message on its standard input
InitBridge ==
    /\ WorkflowIdle
    /\ FillerIdle
    /\ byteorder \in {"little", "big"}
    /\ input \in DOMAIN Inputs
    /\ stdin = Stream(byteorder, Inputs[input])
    /\ stdout = <<>>
    /\ host = "get"
    /\ message = JNull
    /\ bexc = ""
    /\ exit_status = <<>>
    /\ driver = "none"
    /\ stats = NewStats
    /\ sent = <<>>
    /\ received = <<>>

NextBridge ==
    \/ HostGetMessage
    \/ HostValidate
    \/ HostInitFiller
    \/ HostFillForm
    \/ HostClose
    \/ HostRespond
    \/ HostExcept

SpecBridge == InitBridge /\ [][NextBridge]_vars
-----------------------------------------------------------------------------
(* Frames on a pipe: what send_message writes is what get_message reads *)

\* frames written in one run
MaxFrames == 2

\* the messages sent
Messages == <<
    JObj(<< <<KeyStatus, StatusSuccess>> >>),
    ErrorResponse("ValueError"),
    JObj(<< <<KeyUrl, Url>>, <<KeyData, Data2>> >>),
    JObj(<< <<KeyMessage, JStr(<<34, 92, 47, 10, 9, 1, 233, 8364, 127>>)>>,
            <<Str(<<"n">>), JInt(-5)>>,
            <<Str(<<"l">>), JList(<<JNull, JBool(FALSE), JList(<<>>), JStr(<<>>)>>)>> >>),
    JStr(Str(<<"{","}">>)),
    JList(<<JInt(0), JObj(<< <<<<>>, JNull>> >>)>>) >>

\* send_message(m), its bytes going down the pipe
FrameSend ==
    /\ host = "pipe"
    /\ Len(sent) < MaxFrames
    /\ \E k \in DOMAIN Messages :
          /\ Write(Messages[k])
          /\ stdin' = stdin \o send_message(byteorder, Messages[k])
    /\ UNCHANGED <<wfVars, fillVars, byteorder, input, host, message, bexc, exit_status, driver,
                   stats, received>>

\* get_message() at the other end, once bytes are there to read
FrameGet ==
    /\ host = "pipe"
    /\ stdin # <<>>
    /\ \E r \in {get_message(byteorder, stdin)} :
          /\ stdin' = r.rest
          /\ received' = Append(received, [kind |-> r.kind, type |-> r.type, v |-> r.v])
    /\ UNCHANGED <<wfVars, fillVars, byteorder, stdout, input, host, message, bexc, exit_status,
                   driver, stats, sent>>

InitFrames ==
    /\ WorkflowIdle
    /\ FillerIdle
    /\ byteorder \in {"little", "big"}
    /\ stdin = <<>>
    /\ stdout = <<>>
    /\ input = 0
    /\ host = "pipe"
    /\ message = JNull
    /\ bexc = ""
    /\ exit_status = <<>>
    /\ driver = "none"
    /\ stats = NewStats
    /\ sent = <<>>
    /\ received = <<>>

NextFrames ==
    \/ FrameSend
    \/ FrameGet

SpecFrames == InitFrames /\ [][NextFrames]_vars

-----------------------------------------------------------------------------
(* What the browser reads from the host's standard output *)

RECURSIVE Frames(_, _)
\* the frames a reader takes from these bytes, one get_message after another
Frames(order, bytes) ==
    With(bytes, LAMBDA b :
    IF b = <<>> THEN <<>>
    ELSE With(get_message(order, b), LAMBDA r :
            <<[kind |-> r.kind, type |-> r.type, v |-> r.v]>>
                \o (IF r.kind = "ok" THEN Frames(order, r.rest) ELSE <<>>)))

Responses == Frames(byteorder, stdout)

-----------------------------------------------------------------------------
(* C8 *)

\* the frame received holds malformed JSON, or a message without url or data
C8_BadInput == input # 0 /\ Inputs[input].class \in {"malformed", "lacking"}

\* C8: for a frame whose payload is malformed JSON or whose decoded message
\* lacks url or data, the host never starts a fill, can always go on until it
\* has exited, writes at most one response, every response it writes has
\* status error, and once it has exited it has written exactly one.
C8_ErrorResponseExactlyOnce ==
    C8_BadInput =>
        /\ host \in {"get", "validate", "except", "exited"}
        /\ host # "exited" => ENABLED NextBridge
        /\ Len(Responses) <= 1
        /\ \A i \in 1..Len(Responses) :
              /\ Responses[i].kind = "ok"
              /\ Get(Responses[i].v, KeyStatus) = StatusError
        /\ host = "exited" => Len(Responses) = 1 /\ exit_status = <<0>>

\* C8 witness: a message without url was received, the ValueError handler has
\* answered and the host has exited.
C8_Witness ==
    /\ C8_BadInput
    /\ Inputs[input].class = "lacking"
    /\ message # JNull
    /\ Get(message, KeyUrl) = JNull
    /\ Get(message, KeyData) # JNull
    /\ bexc = "ValueError"
    /\ host = "exited"
    /\ Len(Responses) = 1
    /\ Get(Responses[1].v, KeyStatus) = StatusError

-----------------------------------------------------------------------------
(* C9 *)

\* C9: every message read from the pipe equals the message sent at the same
\* place in the order; when the pipe is drained as many were read as sent; the
\* bytes written split into as many frames as messages were sent, leaving no
\* byte over, each frame's payload decoding to its message; on a little-endian
\* machine the first four bytes are the first payload's length, lowest byte first.
C9_RoundTrip ==
    /\ Len(received) <= Len(sent)
    /\ \A i \in 1..Len(received) : received[i] = [kind |-> "ok", type |-> "", v |-> sent[i]]
    /\ stdin = <<>> => Len(received) = Len(sent)
    /\ Responses = [i \in 1..Len(sent) |-> [kind |-> "ok", type |-> "", v |-> sent[i]]]
    /\ sent # <<>> =>
          LET size == Len(stdout) - Len(get_message(byteorder, stdout).rest) - 4
              prefix == SubSeq(stdout, 1, 4)
              low == IF byteorder = "little" THEN prefix ELSE Reverse(prefix)
          IN  /\ size >= 0
              /\ low = <<size % 256, (size \div 256) % 256, (size \div 65536) % 256,
                         (size \div 16777216) % 256>>

\* C9 witness: two different messages were sent, the first with escaped and
\* non-ASCII characters, and both were read back.
C9_Witness ==
    /\ Len(sent) = 2
    /\ sent[1] = Messages[4]
    /\ sent[2] = Messages[3]
    /\ Len(received) = 2
    /\ received[1].v = Messages[4]
    /\ received[2].v = Messages[3]
    /\ stdin = <<>>

-----------------------------------------------------------------------------
(* C10 *)

\* the message with the single field status = success is the first one sent
C10_Sent == sent # <<>> /\ sent[1] = JObj(<< <<KeyStatus, StatusSuccess>> >>)

\* C10 as stated: the frame of {status: success} is the length 20 and the 20
\* bytes of the text without a space after the colon.
C10_SuccessFrameIs20 ==
    C10_Sent =>
        /\ SubSeq(stdout, 1, 4) = (IF byteorder = "little" THEN <<20, 0, 0, 0>> ELSE <<0, 0, 0, 20>>)
        /\ Len(stdout) >= 24
        /\ SubSeq(stdout, 5, 24) = Str(<<"{","\"","s","t","a","t","u","s","\"",":","\"","s","u","c","c","e","s","s","\"","}">>)
        /\ Len(sent) = 1 => Len(stdout) = 24

\* C10 amended: the frame of {status: success} is the length 21 and the 21
\* bytes of the text json.dumps gives, with a space after the colon.
C10_SuccessFrameIs21 ==
    C10_Sent =>
        /\ SubSeq(stdout, 1, 4) = (IF byteorder = "little" THEN <<21, 0, 0, 0>> ELSE <<0, 0, 0, 21>>)
        /\ Len(stdout) >= 25
        /\ SubSeq(stdout, 5, 25) = Str(<<"{","\"","s","t","a","t","u","s","\"",":"," ","\"","s","u","c","c","e","s","s","\"",
            "}">>)
        /\ Len(sent) = 1 => Len(stdout) = 25

\* C10 witness: only {status: success} was sent, on a big-endian machine.
C10_Witness ==
    /\ C10_Sent
    /\ Len(sent) = 1
    /\ byteorder = "big"
    /\ Len(stdout) = 25
    /\ stdout[4] = 21

-----------------------------------------------------------------------------
(* C11 *)

\* the frame received holds a message with a non-empty url and non-empty data
C11_WellFormed == input # 0 /\ Inputs[input].class = "well-formed"

\* C11: for a well-formed message the host, once it has exited, has written
\* exactly one response; the response has status success and carries the stats
\* of the fill pass that ran, or it has status error and the run failed (the
\* WebDriver could not be started).
C11_WellFormedGetsSuccess ==
    (C11_WellFormed /\ host = "exited") =>
        /\ Len(Responses) = 1
        /\ Responses[1].kind = "ok"
        /\ \/ /\ Responses[1].v = SuccessResponse(stats)
              /\ driver = "closed"
           \/ /\ Get(Responses[1].v, KeyStatus) = StatusError
              /\ driver = "None"

-----------------------------------------------------------------------------
(* C12 *)

\* C12: when standard input is at its end the host starts no filler, raises
\* nothing, writes no byte to standard output and sends no message; once it
\* has exited its exit status is 0.
C12_EndOfStreamExitsClean ==
    (input # 0 /\ Inputs[input].class = "eof") =>
        /\ host \in {"get", "exited"}
        /\ stdout = <<>>
        /\ sent = <<>>
        /\ bexc = ""
        /\ driver = "none"
        /\ stats = NewStats
        /\ host = "exited" => exit_status = <<0>>

\* C12 witness: the read of the length prefix came back empty and the host exited.
C12_Witness ==
    /\ input # 0
    /\ Inputs[input].class = "eof"
    /\ Len(received) = 1
    /\ received[1].kind = "exit"
    /\ host = "exited"
    /\ exit_status = <<0>>
    /\ stdout = <<>>

-----------------------------------------------------------------------------
(* EloketFormFiller: the page its driver shows *)

\* fill_form calls made on one filler
MaxPasses == 2

\* an element of the page: what the four locators look at, what is_displayed,
\* tag_name and get_attribute('type') answer, and the state a fill changes.
\* stale: the element left the document once found, so every command on it raises
\* StaleElementReferenceException; interactable: clear, click and send_keys
\* are accepted (else ElementNotInteractableException)
Blank ==
    [id |-> "", name |-> "", label |-> "", placeholder |-> "", displayed |-> TRUE,
     stale |-> FALSE, interactable |-> TRUE, tag |-> "input", type |-> "text",
     value |-> <<>>, text |-> <<>>, selected |-> FALSE, options |-> <<>>, chosen |-> 0]

\* the forms a URL may lead to, each as its elements in document order
Pages ==
    << \* one field of each supported kind
       << [Blank EXCEPT !.id = "email", !.name = "mail", !.type = "email"],
          [Blank EXCEPT !.id = "ok", !.name = "agree", !.type = "checkbox"],
          [Blank EXCEPT !.id = "country", !.tag = "select",
                        !.options = << <<"N","L">>, <<"B","E">> >>],
          [Blank EXCEPT !.label = "Note", !.tag = "textarea", !.text = <<"o","l","d">>] >>,
       \* the same key under several locators, some of the elements hidden
       << [Blank EXCEPT !.id = "email", !.displayed = FALSE],
          [Blank EXCEPT !.name = "email", !.text = <<"o","l","d">>],
          [Blank EXCEPT !.id = "mail"],
          [Blank EXCEPT !.name = "mail"],
          [Blank EXCEPT !.label = "Note", !.displayed = FALSE],
          [Blank EXCEPT !.placeholder = "Note", !.tag = "textarea"],
          [Blank EXCEPT !.placeholder = "agree", !.displayed = FALSE] >>,
       \* a radio group and a ticked checkbox
       << [Blank EXCEPT !.name = "gender", !.type = "radio", !.value = <<"M">>],
          [Blank EXCEPT !.name = "gender", !.type = "radio", !.value = <<"V">>,
                        !.selected = TRUE],
          [Blank EXCEPT !.id = "ok", !.name = "agree", !.type = "checkbox",
                        !.selected = TRUE],
          [Blank EXCEPT !.label = "country", !.tag = "select",
                        !.options = << <<"N","L">>, <<"B","E">> >>, !.chosen = 1] >>,
       \* elements that no command succeeds on, and kinds populate_field leaves alone
       << [Blank EXCEPT !.id = "email", !.stale = TRUE],
          [Blank EXCEPT !.name = "mail", !.type = "tel", !.interactable = FALSE],
          [Blank EXCEPT !.id = "agree", !.type = "date"],
          [Blank EXCEPT !.id = "Note", !.tag = "div"],
          [Blank EXCEPT !.name = "ok", !.type = "checkbox", !.interactable = FALSE] >> >>

\* the data given to fill_form: the items of the dict, in its order
Payloads ==
    { << <<"email", JStr(<<"a","@","b">>)>> >>,
      << <<"email", JStr(<<"x">>)>>, <<"mail", JStr(<<"x">>)>> >>,
      << <<"ok", JBool(TRUE)>>, <<"agree", JBool(TRUE)>>, <<"Note", JInt(7)>> >>,
      << <<"gender", JStr(<<"M">>)>>, <<"country", JStr(<<"B","E">>)>>,
         <<"agree", JBool(FALSE)>> >>,
      << <<"gender", JStr(<<"X">>)>>, <<"country", JStr(<<"F","R">>)>>,
         <<"email", JNull>>, <<"phone", JStr(<<"6">>)>> >> }

-----------------------------------------------------------------------------
(* find_field *)

\* the strategies list with By.NAME ahead of By.ID
StrategiesNameFirst == <<"name", "id", "label", "placeholder">>

\* the locators, in the order of the strategies list: By.ID, By.NAME, the
\* element that follows a label holding the key, the placeholder attribute
Strategies == <<"id", "name", "label", "placeholder">>

\* driver.find_element(by, value): the first element of the document that the
\* locator matches, 0 for NoSuchElementException
Locate(pg, by, key) ==
    IF \E i \in DOMAIN pg : pg[i][by] = key
    THEN CHOOSE i \in DOMAIN pg :
            /\ pg[i][by] = key
            /\ \A j \in DOMAIN pg : pg[j][by] = key => i <= j
    ELSE 0

\* the loop over the strategies from the n-th on
RECURSIVE FindFrom(_, _, _)
FindFrom(pg, key, n) ==
    IF n > Len(Strategies) THEN [kind |-> "None", el |-> 0, by |-> ""]
    ELSE With(Locate(pg, Strategies[n], key), LAMBDA i :
            IF i = 0 THEN FindFrom(pg, key, n + 1)
            ELSE IF pg[i].stale
                 THEN [kind |-> "raise", el |-> i, by |-> Strategies[n]]
            ELSE IF pg[i].displayed
                 THEN [kind |-> "element", el |-> i, by |-> Strategies[n]]
            ELSE FindFrom(pg, key, n + 1))

find_field(pg, key) == FindFrom(pg, key, 1)

-----------------------------------------------------------------------------
(* populate_field *)

\* the input types that are cleared and typed into
TextLike == {"text", "email", "password", "tel", "number", "search", "url"}

\* '{value}' in an f-string, and str(value)
Format(value) == IF value.t = "null" THEN <<"N","o","n","e">> ELSE PyStr(value)

\* bool(value)
Truth_(value) == value.t # "null" /\ Truthy(value)

\* element.clear() left out
element_clear_not(text) == text

\* element.clear()
element_clear(text) == <<>>

\* what populate_field answers: its return value ("raise": it raised), the page
\* it leaves, the element find_field gave, and the commands sent to elements
Answer(ret, pg, f, cmds) ==
    [ret |-> ret, page |-> pg, el |-> f.el, by |-> f.by, cmds |-> cmds]

\* element.clear(); element.send_keys(value)
TypeInto(pg, f, value) ==
    IF ~pg[f.el].interactable THEN Answer("False", pg, f, <<"clear">>)
    ELSE IF value.t = "null"
         THEN Answer("False", [pg EXCEPT ![f.el].text = element_clear(@)], f,
                     <<"clear", "send_keys">>)
    ELSE Answer("True", [pg EXCEPT ![f.el].text = element_clear(@) \o PyStr(value)], f,
                <<"clear", "send_keys">>)

\* click() on the i-th element: a checkbox toggles, a radio becomes the one
\* selected radio of its group
Click(pg, i) ==
    IF pg[i].type = "checkbox" THEN [pg EXCEPT ![i].selected = ~@]
    ELSE [j \in DOMAIN pg |->
            IF j = i THEN [pg[j] EXCEPT !.selected = TRUE]
            ELSE IF pg[j].type = "radio" /\ pg[j].name = pg[i].name
                 THEN [pg[j] EXCEPT !.selected = FALSE]
            ELSE pg[j]]

\* the checkbox branch
Checkbox(pg, f, value) ==
    IF Truth_(value) # pg[f.el].selected
    THEN IF pg[f.el].interactable
         THEN Answer("True", Click(pg, f.el), f, <<"click">>)
         ELSE Answer("False", pg, f, <<"click">>)
    ELSE Answer("True", pg, f, <<>>)

\* the radio branch: the input of the key's name and the value's text
Radio(pg, f, key, value) ==
    LET hit(i) == pg[i].tag = "input" /\ pg[i].name = key /\ pg[i].value = Format(value)
        first == IF \E i \in DOMAIN pg : hit(i)
                 THEN CHOOSE i \in DOMAIN pg : hit(i) /\ \A j \in 1..(i - 1) : ~hit(j)
                 ELSE 0
    IN  IF first = 0 THEN Answer("False", pg, f, <<>>)
        ELSE IF pg[first].selected THEN Answer("True", pg, f, <<>>)
        ELSE IF pg[first].interactable
             THEN Answer("True", Click(pg, first), f, <<"click">>)
        ELSE Answer("False", pg, f, <<"click">>)

\* Select(element).select_by_visible_text(str(value)): the option of that text
\* is clicked unless it is the selected one; no such option raises
SelectByText(pg, f, value) ==
    LET opts == {o \in DOMAIN pg[f.el].options : pg[f.el].options[o] = Format(value)}
    IN  IF opts = {} THEN Answer("False", pg, f, <<>>)
        ELSE LET o == CHOOSE o \in opts : \A q \in opts : o <= q
             IN  IF pg[f.el].chosen = o THEN Answer("True", pg, f, <<>>)
                 ELSE Answer("True", [pg EXCEPT ![f.el].chosen = o], f, <<"click">>)

populate_field(pg, key, value) ==
    With(find_field(pg, key), LAMBDA f :
        IF f.kind = "raise" THEN Answer("raise", pg, f, <<>>)
        ELSE IF f.kind = "None" THEN Answer("False", pg, f, <<>>)
        ELSE CASE pg[f.el].tag = "input" /\ pg[f.el].type \in TextLike ->
                      TypeInto(pg, f, value)
               [] pg[f.el].tag = "input" /\ pg[f.el].type = "checkbox" ->
                      Checkbox(pg, f, value)
               [] pg[f.el].tag = "input" /\ pg[f.el].type = "radio" ->
                      Radio(pg, f, key, value)
               [] pg[f.el].tag = "select" -> SelectByText(pg, f, value)
               [] pg[f.el].tag = "textarea" -> TypeInto(pg, f, value)
               [] OTHER -> Answer("True", pg, f, <<>>))

-----------------------------------------------------------------------------
(* fill_form, call after call on one filler *)

\* what one step of fill_form leaves in the record of the run
Step(kind, key, value, a, before) ==
    [pass |-> passes + 1, kind |-> kind, key |-> key, value |-> value, ret |-> a.ret,
     el |-> a.el, by |-> a.by, cmds |-> a.cmds, changed |-> a.page # before]

\* the driver check and the navigation
FillFormBegin ==
    /\ fpc = "idle"
    /\ passes < MaxPasses
    /\ CASE driver = "unset" ->
              /\ fpc' = "raised"
              /\ bexc' = "AttributeError"
              /\ UNCHANGED <<elements, fidx, passes, returned, flog, stats>>
         [] driver = "None" ->
              /\ returned' = Append(returned, stats)
              /\ passes' = passes + 1
              /\ UNCHANGED <<elements, fpc, fidx, flog, stats, bexc>>
         [] driver = "session" ->
              \/ /\ stats' = [stats EXCEPT !.errors = @ + 1]
                 /\ returned' = Append(returned, stats')
                 /\ passes' = passes + 1
                 /\ flog' = Append(flog, Step("get", "", JNull,
                                [ret |-> "False", page |-> elements, el |-> 0, by |-> "",
                                 cmds |-> <<>>], elements))
                 /\ UNCHANGED <<elements, fpc, fidx, bexc>>
              \/ /\ elements' = Pages[form]
                 /\ fpc' = "loop"
                 /\ fidx' = 1
                 /\ UNCHANGED <<passes, returned, flog, stats, bexc>>
    /\ UNCHANGED <<wfVars, byteorder, stdin, stdout, input, host, message, exit_status,
                   driver, sent, received, form, payload, remap>>

\* the round with a failure counted in both error branches
TallyErrorTwice(st, ret) ==
    IF ret = "True" THEN [st EXCEPT !.fields_populated = @ + 1]
    ELSE [st EXCEPT !.errors = @ + 2]

\* the round with the two error branches left out: only successes are counted
TallySuccessOnly(st, ret) ==
    IF ret = "True" THEN [st EXCEPT !.fields_populated = @ + 1] ELSE st

\* what a round of the loop makes of populate_field's answer: True counts a
\* populated field, False counts an error, an exception is caught and counts an error
Tally(st, ret) ==
    IF ret = "True" THEN [st EXCEPT !.fields_populated = @ + 1]
    ELSE [st EXCEPT !.errors = @ + 1]

\* one round of the loop over data.items()
FillFormField ==
    /\ fpc = "loop"
    /\ fidx <= Len(payload)
    /\ \E a \in {populate_field(elements, payload[fidx][1], payload[fidx][2])} :
          /\ elements' = a.page
          /\ stats' = Tally(stats, a.ret)
          /\ flog' = Append(flog, Step("field", payload[fidx][1], payload[fidx][2], a,
                                       elements))
    /\ fidx' = fidx + 1
    /\ UNCHANGED <<wfVars, byteorder, stdin, stdout, input, host, message, bexc,
                   exit_status, driver, sent, received, form, payload, fpc, passes,
                   returned, remap>>

\* return self.stats
FillFormReturn ==
    /\ fpc = "loop"
    /\ fidx > Len(payload)
    /\ returned' = Append(returned, stats)
    /\ passes' = passes + 1
    /\ fpc' = "idle"
    /\ UNCHANGED <<wfVars, byteorder, stdin, stdout, input, host, message, bexc,
                   exit_status, driver, stats, sent, received, form, elements, payload,
                   fidx, flog, remap>>

\* a filler just constructed, a form behind the URL, and the data to fill in
InitFiller ==
    /\ WorkflowIdle
    /\ byteorder = "little"
    /\ stdin = <<>>
    /\ stdout = <<>>
    /\ input = 0
    /\ host = "idle"
    /\ message = JNull
    /\ bexc = ""
    /\ exit_status = <<>>
    /\ sent = <<>>
    /\ received = <<>>
    /\ driver \in Drivers
    /\ stats = NewStats
    /\ form \in DOMAIN Pages
    /\ elements = <<>>
    /\ payload \in Payloads
    /\ fpc = "idle"
    /\ fidx = 0
    /\ passes = 0
    /\ returned = <<>>
    /\ flog = <<>>
    /\ remap = <<>>

NextFiller ==
    \/ FillFormBegin
    \/ FillFormField
    \/ FillFormReturn

SpecFiller == InitFiller /\ [][NextFiller]_vars

-----------------------------------------------------------------------------
(* C13 *)

\* the command was sent to some element in that step
Sent(cmds, c) == \E n \in 1..Len(cmds) : cmds[n] = c

\* two steps in a row of one pass that populate the same element with the same value
C13_Twice(i) ==
    /\ i + 1 <= Len(flog)
    /\ flog[i].kind = "field"
    /\ flog[i + 1].kind = "field"
    /\ flog[i].pass = flog[i + 1].pass
    /\ flog[i].el # 0
    /\ flog[i].el = flog[i + 1].el
    /\ flog[i].value = flog[i + 1].value

\* C13: populate_field is idempotent. On every page the filler reaches and for
\* every item of the payload, populating the element a second time with the
\* same value leaves the page as the first time left it (text is not
\* appended, the selected option is kept), returns what the first time
\* returned, and sends no click when the first time succeeded; and whenever a
\* pass populated one element twice in a row with the same value, the second
\* time changed nothing, and clicked nothing when the first time succeeded.
C13_PopulateIdempotent ==
    /\ \A n \in DOMAIN payload :
          \E once \in {populate_field(elements, payload[n][1], payload[n][2])} :
          \E twice \in {populate_field(once.page, payload[n][1], payload[n][2])} :
              /\ twice.page = once.page
              /\ twice.ret = once.ret
              /\ once.ret = "True" => ~Sent(twice.cmds, "click")
    /\ \A i \in DOMAIN flog :
          C13_Twice(i) =>
              /\ ~flog[i + 1].changed
              /\ flog[i].ret = "True" => ~Sent(flog[i + 1].cmds, "click")

\* C13 witness: a pass populated one element twice in a row with the same
\* value; the first time changed it, the second time returned True and left
\* it as it was.
C13_Witness ==
    \E i \in DOMAIN flog :
        /\ C13_Twice(i)
        /\ flog[i].changed
        /\ flog[i].ret = "True"
        /\ flog[i + 1].ret = "True"
        /\ ~flog[i + 1].changed

-----------------------------------------------------------------------------
(* fill_radio_field: the target value, as a function of the field and the value *)

\* payload values a radio field may be given
RemapValues ==
    {JBool(TRUE), JBool(FALSE), JInt(1),
     JStr(<<"t","r","u","e">>), JStr(<<"T","r","u","e">>), JStr(<<"f","a","l","s","e">>),
     JStr(<<"m","a","n">>), JStr(<<"M","a","n">>), JStr(<<"v","r","o","u","w">>),
     JStr(<<"M">>), JStr(<<"j","a">>), JStr(<<"n","e","e">>), JStr(<<"J">>)}

\* lines 63-70 of fill_radio_field: the target value, or the AttributeError
Derive(cfg, value) ==
    IF LowerRaises(cfg, value) THEN [raised |-> TRUE, target |-> <<>>]
    ELSE [raised |-> FALSE, target |-> target_value(cfg, value)]

\* the target values of the two values are derived
Remap ==
    /\ ~remap.done
    /\ remap' = [remap EXCEPT !.done = TRUE,
                              !.ta = Derive(remap.cfg, remap.a),
                              !.tb = Derive(remap.cfg, remap.b)]
    /\ UNCHANGED <<wfVars, hostVars, form, elements, payload, fpc, fidx, passes,
                   returned, flog>>

InitRemap ==
    /\ WorkflowIdle
    /\ HostIdle
    /\ form = 0
    /\ elements = <<>>
    /\ payload = <<>>
    /\ fpc = "off"
    /\ fidx = 0
    /\ passes = 0
    /\ returned = <<>>
    /\ flog = <<>>
    /\ \E cfg \in RadioFields, a \in RemapValues, b \in RemapValues :
          remap = [cfg |-> cfg, a |-> a, b |-> b, done |-> FALSE,
                   ta |-> [raised |-> FALSE, target |-> <<>>],
                   tb |-> [raised |-> FALSE, target |-> <<>>]]

NextRemap == Remap

SpecRemap == InitRemap /\ [][NextRemap]_vars

-----------------------------------------------------------------------------
(* C14 *)

\* the values each field is documented to take, with the option each stands for
C14_Table(cfg) ==
    IF IsAdresafwijkend(cfg)
    THEN { <<JBool(TRUE), <<"f","a","l","s","e">> >>, <<JBool(FALSE), <<"t","r","u","e">> >> }
    ELSE { <<JStr(<<"m","a","n">>), <<"M">> >>, <<JStr(<<"v","r","o","u","w">>), <<"V">> >>,
           <<JStr(<<"j","a">>), <<"J">> >>, <<JStr(<<"n","e","e">>), <<"N">> >> }

-----------------------------------------------------------------------------
(* C15 *)

\* the steps of the p-th call of fill_form that populated a field, in order
FieldSteps(p) == SelectSeq(flog, LAMBDA e : e.pass = p /\ e.kind = "field")

\* the p-th call of fill_form navigated
Navigated(p) ==
    /\ driver = "session"
    /\ ~\E i \in DOMAIN flog : flog[i].pass = p /\ flog[i].kind = "get"
    /\ p <= passes \/ (p = passes + 1 /\ fpc = "loop")

\* the steps so far that did not populate their field
Failures == {i \in DOMAIN flog : flog[i].ret # "True"}

\* C15: in a call of fill_form that navigated, the fields attempted so far are
\* the first items of the payload, each once and in the payload's order, and
\* all of them once the call has returned, whatever failed on the way; each
\* field that was not found, whose interaction failed or whose lookup raised
\* counted as one error; and no exception left fill_form.
C15_FailuresCountedAllAttempted ==
    /\ \A p \in 1..MaxPasses :
          Navigated(p) =>
              \E steps \in {FieldSteps(p)} :
                  /\ Len(steps) <= Len(payload)
                  /\ \A n \in DOMAIN steps : steps[n].key = payload[n][1]
                  /\ p <= passes => Len(steps) = Len(payload)
    /\ driver = "session" =>
          /\ stats.errors = Cardinality(Failures)
          /\ stats.fields_populated = Len(flog) - Cardinality(Failures)
          /\ bexc = ""
          /\ fpc # "raised"

\* C15 witness: a call of fill_form returned in which a field was not found,
\* a later field was populated, and every field of the payload was attempted.
C15_Witness ==
    /\ passes >= 1
    /\ Navigated(1)
    /\ Len(FieldSteps(1)) = Len(payload)
    /\ \E i, j \in DOMAIN flog :
          /\ i < j
          /\ flog[i].pass = 1
          /\ flog[j].pass = 1
          /\ flog[i].ret = "False"
          /\ flog[i].el = 0
          /\ flog[j].ret = "True"
    /\ returned[1].errors >= 1

-----------------------------------------------------------------------------
(* C16 *)

\* the n-th of the lookups by identifier, name, label-adjacency and placeholder
\* locates an element for the key of the step
C16_Locates(e, n) ==
    Locate(Pages[form], <<"id", "name", "label", "placeholder">>[n], e.key) # 0

\* the element that lookup locates
C16_Located(e, n) ==
    Pages[form][Locate(Pages[form], <<"id", "name", "label", "placeholder">>[n], e.key)]

\* that lookup locates an element whose visibility check answers True
C16_Visible(e, n) ==
    /\ C16_Locates(e, n)
    /\ ~C16_Located(e, n).stale
    /\ C16_Located(e, n).displayed

-----------------------------------------------------------------------------
(* C17 *)

\* the positions of the handlers at which a field's element is looked up
C17_FieldLabels == AddrLabels \cup {"p1_bsn", "p1_personal", "p1_correspondence", "p2_radio"}

\* the lookup wait of a field of a page handler ran out
C17_NotFound == exc.type = "TimeoutException" /\ exc.at \in C17_FieldLabels

\* the handler the lookup failed in
C17_Page == IF exc.at \in Page1Labels THEN "page1" ELSE "page2"

\* C17 as stated: when the element of a field is not found the handler still
\* reaches its 'page complete' end.
C17_NotFoundRecovered == (C17_NotFound /\ pc = "end") => Completed(C17_Page)

\* C17, amended: when the element of a field is not found the handler is
\* aborted: the failed lookup is the last WebDriver command of the run, the
\* handler does not reach its 'page complete' end, and the orchestrator
\* reports the run as failed.
C17_NotFoundAborts ==
    C17_NotFound =>
        /\ log # <<>>
        /\ log[Len(log)].op \in {"locate", "radios"}
        /\ ~Completed(C17_Page)
        /\ pc \in {"except", "end"}
        /\ pc = "end" => out = <<"failure">>

\* C17 witness: the lookup of a page 1 field other than the first failed after
\* earlier fields were filled, and the run ended as failed with page 1 not completed.
C17_Witness ==
    /\ C17_NotFound
    /\ exc.at = "p1_postalCode"
    /\ Did("send_keys", "bsn")
    /\ ~Completed("page1")
    /\ pc = "end"
    /\ out = <<"failure">>

-----------------------------------------------------------------------------
(* C18 *)

\* the commands of the helper called for a field of page 1
C18_Fill(f) ==
    IF IsRadio(f) THEN <<[op |-> "radios", f |-> f], [op |-> "click", f |-> f]>>
    ELSE <<[op |-> "locate", f |-> f], [op |-> "clear", f |-> f], [op |-> "send_keys", f |-> f]>>

\* every command the page 1 handler can send, in the order of its statements
C18_Sequence ==
    <<[op |-> "visible", f |-> "bsn"]>>
        \o C18_Fill("bsn")
        \o <<[op |-> "wait", f |-> "lastName"]>>
        \o C18_Fill("initials") \o C18_Fill("prefix") \o C18_Fill("lastName")
        \o C18_Fill("gender") \o C18_Fill("phone") \o C18_Fill("mobile")
        \o C18_Fill("email") \o C18_Fill("iban")
        \o C18_Fill("page1_address.postalCode")
        \o C18_Fill("page1_address.houseNumber")
        \o C18_Fill("page1_address.houseNumberSuffix")
        \o <<[op |-> "wait", f |-> "page1_address.street"]>>
        \o C18_Fill("page1_address.street")
        \o C18_Fill("page1_address.city")
        \o C18_Fill("correspondenceAddressSame")
        \o <<[op |-> "complete", f |-> "page1"]>>

\* the commands of the run that belong to page 1
C18_Page1Log ==
    SelectSeq(log, LAMBDA e : e.f \notin Page2AddressFields
                  \cup {"address_is_correct_radio", "page2", "page1_next_button",
                        "page2_next_button"})

\* the place of each command in the handler's order
C18_PlaceTable ==
    [e \in {C18_Sequence[n] : n \in DOMAIN C18_Sequence} |->
        CHOOSE n \in DOMAIN C18_Sequence : C18_Sequence[n] = e]

C18_Place(e) == C18_PlaceTable[e]

C18_BsnFilled == C18_PlaceTable[[op |-> "send_keys", f |-> "bsn"]]
C18_NameWait == C18_PlaceTable[[op |-> "wait", f |-> "lastName"]]
C18_StreetWait == C18_PlaceTable[[op |-> "wait", f |-> "page1_address.street"]]

\* the field was filled: its send_keys was sent
C18_Filled(f) == Did("send_keys", f)

\* C18: the commands of the page 1 handler follow one fixed order, none out
\* of order and none twice: the page-visible wait comes first; the BSN is
\* filled before the name wait begins; the name wait has ended (observed or
\* timed out) before a personal field is touched; the personal fields come
\* before the address block; postal code and house number are filled before
\* the street wait begins, and the street wait has ended before street or city
\* is touched; the correspondenceAddressSame radio comes after all of them,
\* and 'page complete' last.
C18_Page1LinearOrder ==
    \E l \in {C18_Page1Log} :
        /\ \A i \in DOMAIN l : l[i] \in DOMAIN C18_PlaceTable
        /\ \A i \in DOMAIN l : i > 1 => C18_Place(l[i - 1]) < C18_Place(l[i])
        /\ l # <<>> => l[1] = [op |-> "visible", f |-> "bsn"]
        /\ l # <<>> =>
              \E last \in {C18_Place(l[Len(l)])} :
                  /\ last > C18_BsnFilled => C18_Filled("bsn")
                  /\ last > C18_NameWait => waitOutcome["lastName"] # "none"
                  /\ last >= C18_StreetWait =>
                        /\ C18_Filled("page1_address.postalCode")
                        /\ C18_Filled("page1_address.houseNumber")
                  /\ last > C18_StreetWait => waitOutcome["page1_address.street"] # "none"

\* C18 witness: page 1 completed after the BSN, the name wait, personal
\* fields, the whole address block with its street wait, and the final radio.
C18_Witness ==
    /\ Completed("page1")
    /\ C18_Filled("bsn")
    /\ C18_Filled("email")
    /\ C18_Filled("page1_address.postalCode")
    /\ Did("wait", "page1_address.street")
    /\ C18_Filled("page1_address.city")
    /\ Did("radios", "correspondenceAddressSame")

-----------------------------------------------------------------------------
(* C19 *)

\* fill_radio_field failed at a radio step of a handler
C19_RadioFailed ==
    /\ exc.type # ""
    /\ exc.at \in RadioLabels
    /\ IsRadio(FieldAt(exc.at))

\* C19: a radio step that was given a string or a boolean fails only when no
\* option of the group carries the target value (RuntimeError), or when the
\* group itself did not appear on the page (the lookup's TimeoutException);
\* the derivation of the target value accepts the value.
C19_RadioAcceptsStrAndBool ==
    (C19_RadioFailed /\ ArgPresent(exc.at) /\ ArgAt(exc.at).t \in {"str", "bool"}) =>
        exc.type \in {"RuntimeError", "TimeoutException"}

-----------------------------------------------------------------------------
(* C20 *)

\* the steps of the p-th call of fill_form that counted an error
C20_Errors(p) == {i \in DOMAIN flog : flog[i].pass = p /\ flog[i].ret # "True"}

\* the steps of the p-th call of fill_form that counted a populated field
C20_Populated(p) == {i \in DOMAIN flog : flog[i].pass = p /\ flog[i].ret = "True"}

\* C20: the counters a call of fill_form returned count the fields and the
\* errors of that call only, also for a later call on the same filler.
C20_StatsOfOnePass ==
    \A p \in DOMAIN returned :
        /\ returned[p].fields_populated = Cardinality(C20_Populated(p))
        /\ returned[p].errors = Cardinality(C20_Errors(p))

-----------------------------------------------------------------------------
(* C21 *)

\* the first call of fill_form on a filler with a session is under way or over
C21_FirstPass == driver = "session" /\ fpc # "off"

\* the first call of fill_form failed to navigate
C21_NavigationFailed == flog # <<>> /\ flog[1].kind = "get"

\* the counters in every state of the first call, and what the call returned
C21_State ==
    C21_FirstPass =>
        /\ (passes = 0 /\ fpc = "idle") => stats = NewStats
        /\ (passes = 0 /\ fpc = "loop") =>
              /\ stats.fields_populated + stats.errors = fidx - 1
              /\ fidx - 1 = Len(flog)
              /\ fidx - 1 <= Len(payload)
        /\ passes >= 1 =>
              IF C21_NavigationFailed
              THEN /\ returned[1] = [fields_populated |-> 0, errors |-> 1]
                   /\ FieldSteps(1) = <<>>
              ELSE returned[1].fields_populated + returned[1].errors = Len(payload)

\* what a step of the first call does to the counters
C21_Step ==
    (C21_FirstPass /\ passes = 0) =>
        /\ stats'.fields_populated >= stats.fields_populated
        /\ stats'.errors >= stats.errors
        /\ (fpc = "loop" /\ fidx' = fidx + 1) =>
              \/ /\ stats'.fields_populated = stats.fields_populated + 1
                 /\ stats'.errors = stats.errors
              \/ /\ stats'.fields_populated = stats.fields_populated
                 /\ stats'.errors = stats.errors + 1

\* C21: during the first fill pass on a fresh filler fields_populated + errors
\* always equals the number of payload fields processed so far; each processed
\* field adds exactly one to exactly one of the two counters and neither
\* counter ever decreases; a pass that navigated returns counters whose sum is
\* the number of fields of the payload, and a pass whose navigation failed
\* returns errors = 1 and fields_populated = 0 with no field attempted.
C21_CountersTrackFields == []C21_State /\ [][C21_Step]_vars

\* C21 witness: the first pass navigated and returned with at least one field
\* populated and at least one error, the two summing to the payload's size.
C21_Witness ==
    /\ driver = "session"
    /\ passes >= 1
    /\ ~C21_NavigationFailed
    /\ returned[1].fields_populated >= 1
    /\ returned[1].errors >= 1
    /\ returned[1].fields_populated + returned[1].errors = Len(payload)

====
